---- MODULE Spec2Model ----
(***************************************************************************)
(* Token-issuance control path of the Skyflow secrets backend:             *)
(*   - circuitBreaker (call / reset) guarding the upstream exchange,       *)
(*   - generateToken: the retry loop with exponential backoff that runs    *)
(*     as the function handed to circuitBreaker.call.                      *)
(* Each caller is a process; the breaker's mutex is explicit, so a         *)
(* caller's steps are the code between two lock operations.  Time is a     *)
(* global clock counted in seconds.                                        *)
(*                                                                         *)
(*   Spec       the breaker alone: call(fn) for an arbitrary fn that       *)
(*              returns nil or an error after an arbitrary delay.          *)
(*   SpecToken  generateToken: call(fn) where fn is the retry loop.        *)
(*   SpecTimeout pathTokenRead with generateTokenWithTimeout: the caller,  *)
(*              its deadline, the goroutine that runs generateToken and    *)
(*              the result channel between them.                           *)
(*   SpecIssue  roles with role IDs: pathRoleWrite / pathRoleDelete and    *)
(*              the pathTokenRead and generateToken that use them.         *)
(*   SpecConfig pathConfigWrite / pathConfigDelete next to callers of the  *)
(*              breaker.                                                   *)
(*   SpecValidate skyflowConfig.validate on configurations of any content. *)
(*   SpecTelemetry the telemetry configuration from the environment, the   *)
(*              providers and emitters built from it, and their calls.     *)
(*   SpecHealth pathHealthRead probing through generateToken, next to      *)
(*              token requests on the same breaker.                        *)
(***************************************************************************)
EXTENDS Integers, Sequences, FiniteSets, TLC

\* ---------------------------------------------------------------- bounds
NumProcs == 2          \* Spec: concurrent callers of the breaker
NumWorkers == 1        \* SpecToken: concurrent request workers
MaxCalls == 4          \* Spec: total number of circuitBreaker.call invocations
MaxRequests == 2       \* SpecToken: total number of generateToken invocations
MaxTime == 3           \* the clock stops advancing here
MaxRetriesBound == 2   \* config.MaxRetries is drawn from 0..MaxRetriesBound
MaxFailuresBound == 2  \* maxFailures is drawn from 1..MaxFailuresBound
ResetTimeoutBound == 1 \* resetTimeout is drawn from 1..ResetTimeoutBound

Procs == 1..NumProcs
Workers == 1..NumWorkers

\* ------------------------------------------------------------- constants
FactoryMaxFailures == 5     \* newCircuitBreaker(5, 60*time.Second)
FactoryResetTimeout == 60   \* seconds
NoOne == 0                  \* the mutex is free
Admin == NumProcs + NumWorkers + 1  \* the handler that calls reset()
ZeroTime == 0 - 1           \* time.Time{}

VARIABLES
    maxFailures,   \* circuitBreaker.maxFailures
    resetTimeout,  \* circuitBreaker.resetTimeout (seconds)
    failures,      \* circuitBreaker.failures
    lastFailTime,  \* circuitBreaker.lastFailTime
    state,         \* circuitBreaker.state
    mu,            \* circuitBreaker.mu: NoOne or the holder of the lock
    config,        \* the *skyflowConfig handed to generateToken
    req,           \* per worker: position in generateToken and its locals
    now,           \* wall clock, seconds
    calls,         \* number of call() invocations so far
    run,           \* operations recorded since construction/reset:
                   \* the number of failures if all of them failed, else -1
    caller,        \* per request: the frame of generateTokenWithTimeout
    resultChan,    \* per request: the content of its resultChan
    crashed,       \* the process has died of an unrecovered panic
    admin,         \* the frame of the configuration handler in progress
    roleStore,     \* storage: the stored role's number of role IDs, or absent
    osEnv,         \* the environment variables of the process
    tel            \* the telemetry handles of the backend and what they emitted

vars == <<maxFailures, resetTimeout, failures, lastFailTime, state, mu,
          config, req, now, calls, run, caller, resultChan, crashed, admin,
          roleStore, osEnv, tel>>

\* What the token path without timeout wrapper and without configuration
\* handler leaves alone.
ext == <<caller, resultChan, crashed, admin, roleStore, osEnv, tel>>

\* ------------------------------------------------------------ data types
\* A credential string is either empty or set.
CredStrings == {"", "set"}

\* skyflowRole: the optional credential override; validate() rejects a role
\* with both fields set.
Roles ==
    { r \in [CredentialsFilePath : CredStrings, CredentialsJSON : CredStrings] :
        ~(r.CredentialsFilePath # "" /\ r.CredentialsJSON # "") }

\* A role without credential override, as defaultRole() builds it.
NoRole == [CredentialsFilePath |-> "", CredentialsJSON |-> ""]

\* skyflowConfig as generateToken may receive it.
Configs ==
    { c \in [CredentialsFilePath : CredStrings, CredentialsJSON : CredStrings,
             MaxRetries : 0..MaxRetriesBound] :
        ~(c.CredentialsFilePath # "" /\ c.CredentialsJSON # "") }

\* What one call of the SDK's GenerateBearerToken* can return.
ExchangeOutcomes ==
    { [token |-> "tok",   err |-> "nil"],
      [token |-> "empty", err |-> "nil"],
      [token |-> "nil",   err |-> "nil"],
      [token |-> "nil",   err |-> "sdk_error"] }

\* Locals of a worker that is not inside generateToken.
IdleReq ==
    [pc |-> "idle", role |-> NoRole,
     admitted |-> "none", attempt |-> 0, exchanges |-> 0, used |-> "none",
     token |-> "nil", lastErr |-> "nil", wakeAt |-> 0, slept |-> <<>>,
     fnErr |-> "none", retToken |-> "nil", retErr |-> "none"]

\* The configuration of a backend nobody has configured: defaultConfig()
\* without credentials, and no retries.
NoConfig == [CredentialsFilePath |-> "", CredentialsJSON |-> "", MaxRetries |-> 0]

\* A worker whose generateToken has returned (token, err): the locals of the
\* call are gone, the caller holds the two results.
Returned(token, err) ==
    [IdleReq EXCEPT !.retToken = token, !.retErr = err]

\* The frame of a generateTokenWithTimeout that is not running, with the
\* two results of the last one.
IdleCaller ==
    [pc |-> "idle", deadline |-> 0, go |-> "none", sends |-> 0,
     retToken |-> "nil", retErr |-> "none"]

\* A pathTokenRead that has returned (token, err) without leaving a goroutine
\* it had not already left.
CallerReturned(c, token, err) ==
    [c EXCEPT !.pc = "idle", !.deadline = 0, !.retToken = token, !.retErr = err]

\* No role is stored under the name.
NoStoredRole == 0 - 1

\* No configuration handler is running.
IdleAdmin == [pc |-> "idle", op |-> "none", result |-> "none"]

\* A process without any of the variables.
NoEnv ==
    [ENV |-> "", RUNTIME_LOCAL |-> "", TELEMETRY_ENABLED |-> "",
     TELEMETRY_TRACES_ENABLED |-> "", TELEMETRY_METRICS_ENABLED |-> "",
     OTEL_EXPORTER_OTLP_TRACES_ENDPOINT |-> "",
     OTEL_EXPORTER_OTLP_METRICS_ENDPOINT |-> ""]

\* The telemetry of a backend that has not been built: no handle yet, a
\* request context without span and an empty sink.
NoTelemetry ==
    [pc |-> "start", traces |-> "nil", metrics |-> "nil", emitter |-> "nil",
     ctx |-> "none", spans |-> 0, events |-> 0, points |-> 0,
     panicked |-> FALSE, last |-> "none"]

\* ------------------------------------------------------------------ Init
\* No token request and no configuration request is in progress.
InitExt ==
    /\ caller = [p \in Workers |-> IdleCaller]
    /\ resultChan = [p \in Workers |-> <<>>]
    /\ crashed = FALSE
    /\ admin = IdleAdmin
    /\ roleStore = NoStoredRole
    /\ osEnv = NoEnv
    /\ tel = NoTelemetry

\* newCircuitBreaker(maxFailures, resetTimeout)
newCircuitBreaker(mf, rt) ==
    /\ maxFailures = mf
    /\ resetTimeout = rt
    /\ failures = 0
    /\ lastFailTime = ZeroTime
    /\ state = "closed"
    /\ mu = NoOne

InitBreaker ==
    /\ \E mf \in 1..MaxFailuresBound, rt \in 1..ResetTimeoutBound :
           newCircuitBreaker(mf, rt)
    /\ req = [p \in Procs |-> IdleReq]
    /\ now = 0
    /\ calls = 0
    /\ run = 0
    /\ InitExt

\* Spec: the breaker is used without a configuration.
Init ==
    /\ InitBreaker
    /\ config = NoConfig

\* SpecToken: the backend as Factory builds it, with the configuration the
\* requests are served with.
InitToken ==
    /\ newCircuitBreaker(FactoryMaxFailures, FactoryResetTimeout)
    /\ config \in Configs
    /\ req = [p \in Workers |-> IdleReq]
    /\ now = 0
    /\ calls = 0
    /\ run = 0
    /\ InitExt

\* ------------------------------------------------------------- the clock
Tick ==
    /\ now < MaxTime
    /\ now' = now + 1
    /\ UNCHANGED ext
    /\ UNCHANGED <<maxFailures, resetTimeout, failures, lastFailTime, state,
                   mu, config, req, calls, run>>

\* (variant: the comparison is written the wrong way round)
ResetTimeoutElapsedInverted ==
    /\ lastFailTime # ZeroTime
    /\ now - lastFailTime < resetTimeout

\* time.Since(cb.lastFailTime) > cb.resetTimeout
ResetTimeoutElapsed ==
    \/ lastFailTime = ZeroTime
    \/ now - lastFailTime > resetTimeout

\* --------------------------------------------------- circuitBreaker.call
\* cb.mu.Lock(), the first statement of call; role is the role of the
\* request on whose behalf generateToken makes the call.
Lock(p, role) ==
    /\ req[p].pc = "idle"
    /\ mu = NoOne
    /\ mu' = p
    /\ calls' = calls + 1
    /\ req' = [req EXCEPT ![p] = [IdleReq EXCEPT !.pc = "pre", !.role = role]]
    /\ UNCHANGED ext
    /\ UNCHANGED <<maxFailures, resetTimeout, failures, lastFailTime, state,
                   config, now, run>>

\* Spec: some caller invokes cb.call(fn).
CallLock(p) ==
    /\ calls < MaxCalls
    /\ Lock(p, NoRole)

\* SpecToken: generateToken(config, role) is entered and invokes
\* b.circuitBreaker.call.
GenerateTokenLock(p) ==
    /\ calls < MaxRequests
    /\ \E r \in Roles : Lock(p, r)

\* (variant: the branch that moves to half-open forgets its Unlock)
PreCheckUnlockMissing(p, s, elapsed) ==
    IF s = "open" /\ elapsed THEN p ELSE NoOne

\* The holder of the mutex once the pre-check is over: every branch ends
\* with cb.mu.Unlock().
PreCheckUnlock(p, s, elapsed) == NoOne

\* (variant: half-open lets one trial call through and rejects the others)
CallPreCheckSingleTrial(p) ==
    /\ req[p].pc = "pre"
    /\ mu = p
    /\ IF state = "open"
       THEN IF ResetTimeoutElapsed
            THEN /\ state' = "half-open"
                 /\ req' = [req EXCEPT ![p].pc = "fn", ![p].admitted = state]
            ELSE /\ state' = state
                 /\ req' = [req EXCEPT ![p] = Returned("nil", "circuit_open")]
       ELSE IF /\ state = "half-open"
               /\ \E q \in DOMAIN req : req[q].pc \in {"fn", "sleep", "ret"}
       THEN /\ state' = state
            /\ req' = [req EXCEPT ![p] = Returned("nil", "circuit_open")]
       ELSE /\ state' = state
            /\ req' = [req EXCEPT ![p].pc = "fn", ![p].admitted = state]
    /\ mu' = PreCheckUnlock(p, state, ResetTimeoutElapsed)
    /\ UNCHANGED ext
    /\ UNCHANGED <<maxFailures, resetTimeout, failures, lastFailTime,
                   config, now, calls, run>>

\* The pre-check under the lock, up to the Unlock on each of its branches.
CallPreCheck(p) ==
    /\ req[p].pc = "pre"
    /\ mu = p
    /\ IF state = "open"
       THEN IF ResetTimeoutElapsed
            THEN /\ state' = "half-open"
                 /\ req' = [req EXCEPT ![p].pc = "fn", ![p].admitted = state]
            ELSE /\ state' = state
                 /\ req' = [req EXCEPT ![p] = Returned("nil", "circuit_open")]
       ELSE /\ state' = state
            /\ req' = [req EXCEPT ![p].pc = "fn", ![p].admitted = state]
    /\ mu' = PreCheckUnlock(p, state, ResetTimeoutElapsed)
    /\ UNCHANGED ext
    /\ UNCHANGED <<maxFailures, resetTimeout, failures, lastFailTime,
                   config, now, calls, run>>

\* Spec: err := fn() for an arbitrary fn: it returns nil or an error.
FnReturn(p) ==
    /\ req[p].pc = "fn"
    /\ \E e \in {"nil", "error"} :
           req' = [req EXCEPT ![p].pc = "ret", ![p].fnErr = e]
    /\ UNCHANGED ext
    /\ UNCHANGED <<maxFailures, resetTimeout, failures, lastFailTime, state,
                   mu, config, now, calls, run>>

\* ----------------------------------------- the retry loop (the fn of call)
\* (variant: without the final else branch, the configuration's JSON is used
\* whether it is set or not)
CredentialSourceNoElse(role, cfg) ==
    IF role.CredentialsFilePath # "" THEN "role_file"
    ELSE IF role.CredentialsJSON # "" THEN "role_json"
    ELSE IF cfg.CredentialsFilePath # "" THEN "config_file"
    ELSE "config_json"

\* Which credential an attempt uses: role file, role JSON, config file,
\* config JSON, in that order.
CredentialSource(role, cfg) ==
    IF role.CredentialsFilePath # "" THEN "role_file"
    ELSE IF role.CredentialsJSON # "" THEN "role_json"
    ELSE IF cfg.CredentialsFilePath # "" THEN "config_file"
    ELSE IF cfg.CredentialsJSON # "" THEN "config_json"
    ELSE "none"

\* (variant: the loop stops one attempt early)
LoopCondShort(attempt, maxRetries) == attempt < maxRetries

\* for attempt := 0; attempt <= maxRetries; attempt++
LoopCond(attempt, maxRetries) == attempt <= maxRetries

\* if lastErr == nil && token != nil
AttemptSucceeded(token, lastErr) == lastErr = "nil" /\ token # "nil"

\* if attempt < maxRetries
ShouldSleep(attempt, maxRetries) == attempt < maxRetries

\* (variant: linear instead of exponential backoff)
BackoffLinear(attempt) == 2 * attempt

\* time.Duration(math.Pow(2, float64(attempt))) * time.Second, in seconds
Backoff(attempt) == 2 ^ attempt

\* The error fn returns once the loop has run out.
ExhaustedErr(lastErr) ==
    IF lastErr # "nil" THEN "exhausted" ELSE "no_token"

\* One evaluation of the loop condition and, if it holds, one loop body up
\* to its return, its time.Sleep or its attempt++.
Attempt(p) ==
    /\ req[p].pc = "fn"
    /\ LET r == req[p] IN
       IF ~LoopCond(r.attempt, config.MaxRetries)
       THEN req' = [req EXCEPT ![p].pc = "ret",
                               ![p].fnErr = ExhaustedErr(r.lastErr)]
       ELSE LET src == CredentialSource(r.role, config) IN
            IF src = "none"
            THEN req' = [req EXCEPT ![p].pc = "ret",
                                    ![p].fnErr = "no_credentials"]
            ELSE \E o \in ExchangeOutcomes :
                   LET base == [r EXCEPT !.token = o.token, !.lastErr = o.err,
                                         !.used = src,
                                         !.exchanges = r.exchanges + 1] IN
                   IF AttemptSucceeded(o.token, o.err)
                   THEN req' = [req EXCEPT ![p] =
                                  [base EXCEPT !.pc = "ret", !.fnErr = "nil"]]
                   ELSE IF ShouldSleep(r.attempt, config.MaxRetries)
                   THEN req' = [req EXCEPT ![p] =
                                  [base EXCEPT
                                     !.pc = "sleep",
                                     !.wakeAt = now + Backoff(r.attempt),
                                     !.slept = Append(r.slept,
                                                      Backoff(r.attempt))]]
                   ELSE req' = [req EXCEPT ![p] =
                                  [base EXCEPT !.attempt = r.attempt + 1]]
    /\ UNCHANGED ext
    /\ UNCHANGED <<maxFailures, resetTimeout, failures, lastFailTime, state,
                   mu, config, now, calls, run>>

\* time.Sleep(backoff) returns, then attempt++.
WakeUp(p) ==
    /\ req[p].pc = "sleep"
    /\ now >= req[p].wakeAt
    /\ req' = [req EXCEPT ![p].pc = "fn", ![p].wakeAt = 0,
                          ![p].attempt = req[p].attempt + 1]
    /\ UNCHANGED ext
    /\ UNCHANGED <<maxFailures, resetTimeout, failures, lastFailTime, state,
                   mu, config, now, calls, run>>

\* ----------------------------------------- call: the post-result section
\* cb.mu.Lock() after fn has returned.
PostLock(p) ==
    /\ req[p].pc = "ret"
    /\ mu = NoOne
    /\ mu' = p
    /\ req' = [req EXCEPT ![p].pc = "post"]
    /\ UNCHANGED ext
    /\ UNCHANGED <<maxFailures, resetTimeout, failures, lastFailTime, state,
                   config, now, calls, run>>

\* (variant: the threshold is compared with > instead of >=)
StateAfterFailureLate(s, f, mf) == IF f > mf THEN "open" ELSE s

\* if cb.failures >= cb.maxFailures { cb.state = "open" }, with the
\* incremented count.
StateAfterFailure(s, f, mf) == IF f >= mf THEN "open" ELSE s

\* (variant: a success closes the breaker whatever its state)
StateAfterSuccessAlways(s) == "closed"

\* if cb.state == "half-open" { cb.state = "closed" }
StateAfterSuccess(s) == IF s = "half-open" THEN "closed" ELSE s

\* cb.failures++
FailuresAfterFailure(f) == f + 1

\* (variant: the breaker counts every failed attempt of the request)
PostResultPerAttempt(p) ==
    /\ req[p].pc = "post"
    /\ mu = p
    /\ IF req[p].fnErr # "nil"
       THEN /\ failures' = failures + req[p].exchanges
            /\ lastFailTime' = now
            /\ state' = StateAfterFailure(state, failures + req[p].exchanges,
                                          maxFailures)
            /\ run' = IF run >= 0 THEN run + 1 ELSE run
            /\ req' = [req EXCEPT ![p] = Returned("nil", req[p].fnErr)]
       ELSE /\ state' = StateAfterSuccess(state)
            /\ failures' = 0
            /\ lastFailTime' = lastFailTime
            /\ run' = 0 - 1
            /\ req' = [req EXCEPT ![p] = Returned(req[p].token, "nil")]
    /\ mu' = NoOne
    /\ UNCHANGED ext
    /\ UNCHANGED <<maxFailures, resetTimeout, config, now, calls>>

\* (variant: the breaker does not count an error of the configuration)
PostResultCountsUpstreamOnly(p) ==
    /\ req[p].pc = "post"
    /\ mu = p
    /\ IF req[p].fnErr = "no_credentials"
       THEN /\ UNCHANGED <<failures, lastFailTime, state, run>>
            /\ req' = [req EXCEPT ![p] = Returned("nil", req[p].fnErr)]
       ELSE IF req[p].fnErr # "nil"
       THEN /\ failures' = FailuresAfterFailure(failures)
            /\ lastFailTime' = now
            /\ state' = StateAfterFailure(state, FailuresAfterFailure(failures),
                                          maxFailures)
            /\ run' = IF run >= 0 THEN run + 1 ELSE run
            /\ req' = [req EXCEPT ![p] = Returned("nil", req[p].fnErr)]
       ELSE /\ state' = StateAfterSuccess(state)
            /\ failures' = 0
            /\ lastFailTime' = lastFailTime
            /\ run' = 0 - 1
            /\ req' = [req EXCEPT ![p] = Returned(req[p].token, "nil")]
    /\ mu' = NoOne
    /\ UNCHANGED ext
    /\ UNCHANGED <<maxFailures, resetTimeout, config, now, calls>>

\* (variant: the bookkeeping is skipped once the request's caller has gone)
PostResultSkipsAbandoned(p) ==
    /\ req[p].pc = "post"
    /\ mu = p
    /\ IF caller[p].go # "none" /\ caller[p].pc # "waiting"
       THEN /\ UNCHANGED <<failures, lastFailTime, state, run>>
            /\ req' = [req EXCEPT ![p] =
                         Returned(IF req[p].fnErr # "nil" THEN "nil"
                                  ELSE req[p].token,
                                  IF req[p].fnErr # "nil" THEN req[p].fnErr
                                  ELSE "nil")]
       ELSE IF req[p].fnErr # "nil"
       THEN /\ failures' = FailuresAfterFailure(failures)
            /\ lastFailTime' = now
            /\ state' = StateAfterFailure(state, FailuresAfterFailure(failures),
                                          maxFailures)
            /\ run' = IF run >= 0 THEN run + 1 ELSE run
            /\ req' = [req EXCEPT ![p] = Returned("nil", req[p].fnErr)]
       ELSE /\ state' = StateAfterSuccess(state)
            /\ failures' = 0
            /\ lastFailTime' = lastFailTime
            /\ run' = 0 - 1
            /\ req' = [req EXCEPT ![p] = Returned(req[p].token, "nil")]
    /\ mu' = NoOne
    /\ UNCHANGED ext
    /\ UNCHANGED <<maxFailures, resetTimeout, config, now, calls>>

\* The bookkeeping under the lock, the deferred Unlock, and generateToken's
\* own return of (token, nil) or (nil, err).
PostResult(p) ==
    /\ req[p].pc = "post"
    /\ mu = p
    /\ IF req[p].fnErr # "nil"
       THEN /\ failures' = FailuresAfterFailure(failures)
            /\ lastFailTime' = now
            /\ state' = StateAfterFailure(state, FailuresAfterFailure(failures),
                                          maxFailures)
            /\ run' = IF run >= 0 THEN run + 1 ELSE run
            /\ req' = [req EXCEPT ![p] = Returned("nil", req[p].fnErr)]
       ELSE /\ state' = StateAfterSuccess(state)
            /\ failures' = 0
            /\ lastFailTime' = lastFailTime
            /\ run' = 0 - 1
            /\ req' = [req EXCEPT ![p] = Returned(req[p].token, "nil")]
    /\ mu' = NoOne
    /\ UNCHANGED ext
    /\ UNCHANGED <<maxFailures, resetTimeout, config, now, calls>>

\* -------------------------------------------------- circuitBreaker.reset
\* cb.mu.Lock() in reset(), called by the configuration handlers.
ResetLock ==
    /\ mu = NoOne
    /\ mu' = Admin
    /\ UNCHANGED ext
    /\ UNCHANGED <<maxFailures, resetTimeout, failures, lastFailTime, state,
                   config, req, now, calls, run>>

\* (variant: reset() forgets to clear lastFailTime)
ResetKeepsLastFailTime ==
    /\ mu = Admin
    /\ failures' = 0
    /\ state' = "closed"
    /\ lastFailTime' = lastFailTime
    /\ mu' = NoOne
    /\ run' = 0
    /\ UNCHANGED ext
    /\ UNCHANGED <<maxFailures, resetTimeout, config, req, now, calls>>

\* The body of reset() and its deferred Unlock.
Reset ==
    /\ mu = Admin
    /\ failures' = 0
    /\ state' = "closed"
    /\ lastFailTime' = ZeroTime
    /\ mu' = NoOne
    /\ run' = 0
    /\ UNCHANGED ext
    /\ UNCHANGED <<maxFailures, resetTimeout, config, req, now, calls>>

\* ------------------------------------------------------------------ Next
Next ==
    \/ Tick
    \/ \E p \in Procs : CallLock(p)
    \/ \E p \in Procs : CallPreCheck(p)
    \/ \E p \in Procs : FnReturn(p)
    \/ \E p \in Procs : PostLock(p)
    \/ \E p \in Procs : PostResult(p)
    \/ ResetLock
    \/ Reset

Spec == Init /\ [][Next]_vars

NextToken ==
    \/ Tick
    \/ \E p \in Workers : GenerateTokenLock(p)
    \/ \E p \in Workers : CallPreCheck(p)
    \/ \E p \in Workers : Attempt(p)
    \/ \E p \in Workers : WakeUp(p)
    \/ \E p \in Workers : PostLock(p)
    \/ \E p \in Workers : PostResult(p)
    \/ ResetLock
    \/ Reset

SpecToken == InitToken /\ [][NextToken]_vars

TypeOK ==
    /\ state \in {"closed", "open", "half-open"}
    /\ failures \in Nat
    /\ mu \in {NoOne, Admin} \cup Procs \cup Workers
    /\ now \in 0..MaxTime

\* ========================================================================
\* pathTokenRead and generateTokenWithTimeout
\* ========================================================================
MaxTimeoutBound == 1   \* config.RequestTimeout is drawn from 1..MaxTimeoutBound

\* resultChan := make(chan struct{...}, 1)
ResultChanCap == 1

\* getConfig found nothing in storage.
NilConfig == [nil |-> TRUE]

\* skyflowConfig as validate() lets it into storage, with its timeout.
StoredConfigs ==
    { [CredentialsFilePath |-> c.CredentialsFilePath,
       CredentialsJSON |-> c.CredentialsJSON,
       MaxRetries |-> c.MaxRetries,
       RequestTimeout |-> t] :
        c \in { d \in Configs : d.CredentialsFilePath # "" \/ d.CredentialsJSON # "" },
        t \in 1..MaxTimeoutBound }

\* SpecTimeout: the backend as Factory builds it, with the configuration in
\* storage or none.
InitTimeout ==
    /\ newCircuitBreaker(FactoryMaxFailures, FactoryResetTimeout)
    /\ config \in StoredConfigs \cup {NilConfig}
    /\ req = [p \in Workers |-> IdleReq]
    /\ now = 0
    /\ calls = 0
    /\ run = 0
    /\ InitExt

\* Goroutines that were started and have not yet entered generateToken.
Pending == { q \in Workers : caller[q].go = "spawned" /\ req[q] = IdleReq }

\* pathTokenRead up to the select of generateTokenWithTimeout: the role and
\* the configuration are looked up, the deadline is set, the channel is made
\* and the goroutine is started.  Each slot serves one request, and a request
\* starts only while its deadline lies within the clock's range.
PathTokenRead(p) ==
    /\ ~crashed
    /\ caller[p] = IdleCaller
    /\ \E found \in BOOLEAN :
         IF ~found
         THEN /\ caller' = [caller EXCEPT ![p] =
                              CallerReturned(caller[p], "nil", "role_not_found")]
              /\ UNCHANGED <<req, resultChan>>
         ELSE IF config = NilConfig
         THEN /\ caller' = [caller EXCEPT ![p] =
                              CallerReturned(caller[p], "nil", "not_configured")]
              /\ UNCHANGED <<req, resultChan>>
         ELSE /\ calls + Cardinality(Pending) < MaxRequests
              /\ now + config.RequestTimeout <= MaxTime
              /\ caller' = [caller EXCEPT ![p] =
                              [pc |-> "waiting",
                               deadline |-> now + config.RequestTimeout,
                               go |-> "spawned", sends |-> 0,
                               retToken |-> "nil", retErr |-> "none"]]
              /\ resultChan' = [resultChan EXCEPT ![p] = <<>>]
              /\ req' = [req EXCEPT ![p] = IdleReq]
    /\ UNCHANGED <<maxFailures, resetTimeout, failures, lastFailTime, state,
                   mu, config, now, calls, run, crashed, admin, roleStore,
                   osEnv, tel>>

\* The goroutine enters b.generateToken(config, role).
GoGenerateToken(p) ==
    /\ ~crashed
    /\ caller[p].go = "spawned"
    /\ req[p] = IdleReq
    /\ GenerateTokenLock(p)

\* The SDK call of an attempt panics: neither generateToken nor the goroutine
\* of generateTokenWithTimeout recovers, so the process dies.
AttemptPanics(p) ==
    /\ ~crashed
    /\ req[p].pc = "fn"
    /\ LoopCond(req[p].attempt, config.MaxRetries)
    /\ CredentialSource(req[p].role, config) # "none"
    /\ crashed' = TRUE
    /\ UNCHANGED <<maxFailures, resetTimeout, failures, lastFailTime, state,
                   mu, config, req, now, calls, run, caller, resultChan, admin, roleStore,
                   osEnv, tel>>

\* (variant: the channel is unbuffered, a send needs a waiting receiver)
CanSendUnbuffered(ch, receiving) == receiving

\* A send into the buffered channel goes through while the buffer has room.
CanSend(ch, receiving) == Len(ch) < ResultChanCap

\* generateToken has returned and the goroutine has its result in hand.
AtSend(p) ==
    /\ caller[p].go = "spawned"
    /\ req[p].pc = "idle"
    /\ req[p].retErr # "none"

\* resultChan <- struct{...}{token, err}, the last statement of the
\* goroutine.
Send(p) ==
    /\ ~crashed
    /\ AtSend(p)
    /\ CanSend(resultChan[p], caller[p].pc = "waiting")
    /\ resultChan' = [resultChan EXCEPT ![p] =
                        Append(resultChan[p], [token |-> req[p].retToken,
                                               err |-> req[p].retErr])]
    /\ caller' = [caller EXCEPT ![p].go = "sent",
                                ![p].sends = caller[p].sends + 1]
    /\ UNCHANGED <<maxFailures, resetTimeout, failures, lastFailTime, state,
                   mu, config, req, now, calls, run, crashed, admin, roleStore,
                   osEnv, tel>>

\* case result := <-resultChan: return result.token, result.err
ReceiveResult(p) ==
    /\ ~crashed
    /\ caller[p].pc = "waiting"
    /\ resultChan[p] # <<>>
    /\ caller' = [caller EXCEPT ![p] =
                    CallerReturned(caller[p], Head(resultChan[p]).token,
                                   Head(resultChan[p]).err)]
    /\ resultChan' = [resultChan EXCEPT ![p] = Tail(resultChan[p])]
    /\ UNCHANGED <<maxFailures, resetTimeout, failures, lastFailTime, state,
                   mu, config, req, now, calls, run, crashed, admin, roleStore,
                   osEnv, tel>>

\* (variant: the deadline is never looked at)
DeadlineReachedNever(deadline) == FALSE

\* ctx.Done() of context.WithTimeout(ctx, timeout) is closed.
DeadlineReached(deadline) == now >= deadline

\* case <-ctx.Done(): return nil, "token generation timeout after ..."
TimeoutReturn(p) ==
    /\ ~crashed
    /\ caller[p].pc = "waiting"
    /\ DeadlineReached(caller[p].deadline)
    /\ caller' = [caller EXCEPT ![p] =
                    CallerReturned(caller[p], "nil", "timeout")]
    /\ UNCHANGED <<maxFailures, resetTimeout, failures, lastFailTime, state,
                   mu, config, req, now, calls, run, resultChan, crashed, admin, roleStore,
                   osEnv, tel>>

\* Time passes while the process is alive.  The runtime wakes a select the
\* moment its context's timer fires, so the clock does not run past a
\* deadline a caller is still waiting for.
TickAlive ==
    /\ ~crashed
    /\ \A p \in Workers : caller[p].pc = "waiting" => now < caller[p].deadline
    /\ Tick

NextTimeout ==
    \/ TickAlive
    \/ \E p \in Workers : PathTokenRead(p)
    \/ \E p \in Workers : GoGenerateToken(p)
    \/ \E p \in Workers : ~crashed /\ CallPreCheck(p)
    \/ \E p \in Workers : ~crashed /\ Attempt(p)
    \/ \E p \in Workers : ~crashed /\ WakeUp(p)
    \/ \E p \in Workers : ~crashed /\ PostLock(p)
    \/ \E p \in Workers : ~crashed /\ PostResult(p)
    \/ \E p \in Workers : AttemptPanics(p)
    \/ \E p \in Workers : Send(p)
    \/ \E p \in Workers : ReceiveResult(p)
    \/ \E p \in Workers : TimeoutReturn(p)

SpecTimeout == InitTimeout /\ [][NextTimeout]_vars

\* ========================================================================
\* Roles with role IDs: pathRoleWrite, pathRoleDelete, and the pathTokenRead
\* and generateToken that use them (no breaker, no retry, no timeout wrapper)
\* ========================================================================
MaxRoleIDs == 2        \* a role_ids field holds 0..MaxRoleIDs identifiers

\* Locals of a worker that is not inside this pathTokenRead / generateToken.
IdleIssue ==
    [pc |-> "idle", via |-> "none", roleIDs |-> 0, exchanges |-> 0,
     exchangedIDs |-> 0, retToken |-> "nil", retErr |-> "none"]

\* The worker's generateToken has returned (token, err).
IssueReturned(r, token, err) ==
    [r EXCEPT !.pc = "idle", !.retToken = token, !.retErr = err]

\* SpecIssue: a fresh backend, no role stored, with the configuration in
\* storage or none.
InitIssue ==
    /\ newCircuitBreaker(FactoryMaxFailures, FactoryResetTimeout)
    /\ config \in StoredConfigs \cup {NilConfig}
    /\ req = [p \in Workers |-> IdleIssue]
    /\ now = 0
    /\ calls = 0
    /\ run = 0
    /\ InitExt

\* (variant: validate forgets the upper limit)
ValidateRoleNoUpper(n) ==
    IF n = 0 THEN "role_ids is required" ELSE "nil"

\* skyflowRole.validate() for a role with a name and n role IDs.
ValidateRole(n) ==
    IF n = 0 THEN "role_ids is required"
    ELSE IF n > 1 THEN "only one role_id is supported"
    ELSE "nil"

\* defaultRole(name): no role IDs.
DefaultRoleIDs == 0

\* (variant: the role is saved before it is validated)
PathRoleWriteRequestSavesFirst(update, given, ids) ==
    LET base == IF update /\ roleStore # NoStoredRole
                THEN roleStore ELSE DefaultRoleIDs
        n == IF given THEN ids ELSE base
        err == ValidateRole(n) IN
    \E saved \in BOOLEAN :
        /\ roleStore' = IF saved THEN n ELSE roleStore
        /\ admin' = [pc |-> "idle", op |-> "role_write",
                     result |-> IF ~saved THEN "storage error" ELSE err]

\* pathRoleWrite for one request: create starts from defaultRole, update from
\* the stored role if there is one; role_ids replaces the IDs when the
\* request carries it; the role is saved only if validate() accepts it, and
\* the save may fail.
PathRoleWriteRequest(update, given, ids) ==
    LET base == IF update /\ roleStore # NoStoredRole
                THEN roleStore ELSE DefaultRoleIDs
        n == IF given THEN ids ELSE base
        err == ValidateRole(n) IN
    IF err # "nil"
    THEN /\ roleStore' = roleStore
         /\ admin' = [pc |-> "idle", op |-> "role_write", result |-> err]
    ELSE \E saved \in BOOLEAN :
           /\ roleStore' = IF saved THEN n ELSE roleStore
           /\ admin' = [pc |-> "idle", op |-> "role_write",
                        result |-> IF saved THEN "nil" ELSE "storage error"]

\* pathRoleWrite, for any request the administrator may send.
PathRoleWrite ==
    /\ admin.pc = "idle"
    /\ \E update \in BOOLEAN, given \in BOOLEAN, ids \in 0..MaxRoleIDs :
         PathRoleWriteRequest(update, given, ids)
    /\ UNCHANGED <<maxFailures, resetTimeout, failures, lastFailTime,
                   state, mu, config, req, now, calls, run, caller,
                   resultChan, crashed,
                   osEnv, tel>>

\* pathRoleDelete
PathRoleDelete ==
    /\ admin.pc = "idle"
    /\ roleStore' = NoStoredRole
    /\ admin' = [pc |-> "idle", op |-> "role_delete", result |-> "nil"]
    /\ UNCHANGED <<maxFailures, resetTimeout, failures, lastFailTime, state,
                   mu, config, req, now, calls, run, caller, resultChan,
                   crashed,
                   osEnv, tel>>

\* pathTokenRead up to its call of generateToken: the role and the
\* configuration are read from storage.
TokenReadLookup(p) ==
    /\ req[p].pc = "idle"
    /\ calls < MaxRequests
    /\ calls' = calls + 1
    /\ req' = [req EXCEPT ![p] =
                 IF roleStore = NoStoredRole
                 THEN IssueReturned([IdleIssue EXCEPT !.via = "endpoint"],
                                    "nil", "role_not_found")
                 ELSE IF config = NilConfig
                 THEN IssueReturned([IdleIssue EXCEPT !.via = "endpoint"],
                                    "nil", "not_configured")
                 ELSE [IdleIssue EXCEPT !.pc = "issue", !.via = "endpoint",
                                        !.roleIDs = roleStore]]
    /\ UNCHANGED ext
    /\ UNCHANGED <<maxFailures, resetTimeout, failures, lastFailTime, state,
                   mu, config, now, run>>

\* generateToken(cfg, role, "") called with a role built by the caller, as
\* the package's tests do.
GenerateTokenCall(p) ==
    /\ req[p].pc = "idle"
    /\ calls < MaxRequests
    /\ config # NilConfig
    /\ calls' = calls + 1
    /\ \E n \in 0..MaxRoleIDs :
         req' = [req EXCEPT ![p] =
                   [IdleIssue EXCEPT !.pc = "issue", !.via = "direct",
                                     !.roleIDs = n]]
    /\ UNCHANGED ext
    /\ UNCHANGED <<maxFailures, resetTimeout, failures, lastFailTime, state,
                   mu, config, now, run>>

\* What generateToken returns for one outcome of the SDK call; a panic is
\* recovered into an error.
IssueResult(o) ==
    IF o.err = "panic" THEN [token |-> "nil", err |-> "panic"]
    ELSE IF o.err # "nil" THEN [token |-> "nil", err |-> "sdk_error"]
    ELSE IF o.token = "nil" \/ o.token = "empty"
         THEN [token |-> "nil", err |-> "empty_token"]
    ELSE [token |-> o.token, err |-> "nil"]

\* generateToken: the credential of the configuration is chosen (file, whose
\* existence is checked, else JSON), the SDK is called with the role's IDs,
\* and the result is checked.
IssueToken(p) ==
    /\ req[p].pc = "issue"
    /\ LET r == req[p]
           exchange ==
             \E o \in ExchangeOutcomes \cup {[token |-> "nil", err |-> "panic"]} :
                req' = [req EXCEPT ![p] =
                          IssueReturned([r EXCEPT !.exchanges = r.exchanges + 1,
                                                  !.exchangedIDs = r.roleIDs],
                                        IssueResult(o).token, IssueResult(o).err)]
       IN IF config.CredentialsFilePath # ""
          THEN \E exists \in BOOLEAN :
                 IF exists THEN exchange
                 ELSE req' = [req EXCEPT ![p] =
                                IssueReturned(r, "nil", "file_not_found")]
          ELSE IF config.CredentialsJSON # ""
          THEN exchange
          ELSE req' = [req EXCEPT ![p] =
                         IssueReturned(r, "nil", "no_credentials")]
    /\ UNCHANGED ext
    /\ UNCHANGED <<maxFailures, resetTimeout, failures, lastFailTime, state,
                   mu, config, now, calls, run>>

NextIssue ==
    \/ PathRoleWrite
    \/ PathRoleDelete
    \/ \E p \in Workers : TokenReadLookup(p)
    \/ \E p \in Workers : GenerateTokenCall(p)
    \/ \E p \in Workers : IssueToken(p)

SpecIssue == InitIssue /\ [][NextIssue]_vars

\* ========================================================================
\* pathConfigWrite and pathConfigDelete
\* ========================================================================
DefaultMaxRetries == 3         \* defaultConfig()
DefaultRequestTimeout == 30    \* defaultConfig(), seconds
MaxRetriesLimit == 10          \* validate(): 0 <= max_retries <= 10
RequestTimeoutLimit == 300     \* validate(): 1 <= request_timeout <= 300

\* The request does not carry the field.
Absent == "absent"

\* A credentials_json that is not JSON.
NotJSON == "not json"

\* A numeric field of a request: absent, or given with value v.
NoNumber == [has |-> FALSE, v |-> 0]
Number(x) == [has |-> TRUE, v |-> x]

\* The values the write requests of SpecConfig carry in each field: a
\* credential or none, and no number.
PathInputs == {Absent, "set"}
JSONInputs == {Absent, "set"}
RetryInputs == {NoNumber}
TimeoutInputs == {NoNumber}

\* defaultConfig()
DefaultConfig ==
    [CredentialsFilePath |-> "", CredentialsJSON |-> "",
     MaxRetries |-> DefaultMaxRetries, RequestTimeout |-> DefaultRequestTimeout]

\* The fields of the request are laid over the configuration c, in the
\* order of the handler: a file path clears the JSON, a JSON clears the path.
MergeConfig(c, path, json, retries, timeout) ==
    LET c1 == IF path # Absent
              THEN [c EXCEPT !.CredentialsFilePath = path, !.CredentialsJSON = ""]
              ELSE c
        c2 == IF json # Absent
              THEN [c1 EXCEPT !.CredentialsJSON = json, !.CredentialsFilePath = ""]
              ELSE c1
        c3 == IF retries.has THEN [c2 EXCEPT !.MaxRetries = retries.v] ELSE c2
    IN  IF timeout.has THEN [c3 EXCEPT !.RequestTimeout = timeout.v] ELSE c3

\* (variant: validate without the check for two credential sources)
ValidateConfigNoBothCheck(c) ==
    IF c.CredentialsFilePath = "" /\ c.CredentialsJSON = ""
    THEN "either credentials_file_path or credentials_json must be provided"
    ELSE IF c.CredentialsJSON = NotJSON
    THEN "credentials_json must be valid JSON"
    ELSE IF c.MaxRetries < 0 \/ c.MaxRetries > MaxRetriesLimit
    THEN "max_retries must be between 0 and 10"
    ELSE IF c.RequestTimeout < 1 \/ c.RequestTimeout > RequestTimeoutLimit
    THEN "request_timeout must be between 1 and 300 seconds"
    ELSE "nil"

\* skyflowConfig.validate()
ValidateConfig(c) ==
    IF c.CredentialsFilePath = "" /\ c.CredentialsJSON = ""
    THEN "either credentials_file_path or credentials_json must be provided"
    ELSE IF c.CredentialsFilePath # "" /\ c.CredentialsJSON # ""
    THEN "only one of credentials_file_path or credentials_json can be provided"
    ELSE IF c.CredentialsJSON = NotJSON
    THEN "credentials_json must be valid JSON"
    ELSE IF c.MaxRetries < 0 \/ c.MaxRetries > MaxRetriesLimit
    THEN "max_retries must be between 0 and 10"
    ELSE IF c.RequestTimeout < 1 \/ c.RequestTimeout > RequestTimeoutLimit
    THEN "request_timeout must be between 1 and 300 seconds"
    ELSE "nil"

\* SpecConfig: a fresh backend without configuration; the breaker is built
\* with small limits so that its callers can open it.
InitConfig ==
    /\ \E mf \in 1..MaxFailuresBound, rt \in 1..ResetTimeoutBound :
           newCircuitBreaker(mf, rt)
    /\ config = NilConfig
    /\ req = [p \in Workers |-> IdleReq]
    /\ now = 0
    /\ calls = 0
    /\ run = 0
    /\ InitExt

\* SpecConfig: a request worker invokes b.circuitBreaker.call(fn).
BreakerCallLock(p) ==
    /\ calls < MaxRequests
    /\ Lock(p, NoRole)

\* The handler has returned with the given result.
AdminReturned(op, result) == [pc |-> "idle", op |-> op, result |-> result]

\* pathConfigWrite for one request, up to its call of reset(): the stored or
\* the default configuration is overlaid with the fields of the request,
\* validated (also against the SDK, which may report an error when
\* validate_credentials asks for it) and saved; each failure returns without
\* saving.
PathConfigWriteRequest(update, path, json, retries, timeout) ==
    LET base == IF update /\ config # NilConfig THEN config ELSE DefaultConfig
        c == MergeConfig(base, path, json, retries, timeout)
        err == ValidateConfig(c) IN
    IF err # "nil"
    THEN /\ admin' = AdminReturned("config_write", err)
         /\ config' = config
    ELSE \E credsErr \in BOOLEAN, saved \in BOOLEAN :
           IF credsErr
           THEN /\ admin' = AdminReturned("config_write",
                                          "credential validation failed")
                /\ config' = config
           ELSE IF ~saved
           THEN /\ admin' = AdminReturned("config_write", "storage error")
                /\ config' = config
           ELSE /\ admin' = [pc |-> "saved", op |-> "config_write",
                             result |-> "none"]
                /\ config' = c

\* pathConfigWrite, for any request the administrator may send.
PathConfigWrite ==
    /\ admin.pc = "idle"
    /\ \E update \in BOOLEAN, path \in PathInputs, json \in JSONInputs,
          retries \in RetryInputs, timeout \in TimeoutInputs :
         PathConfigWriteRequest(update, path, json, retries, timeout)
    /\ UNCHANGED <<maxFailures, resetTimeout, failures, lastFailTime, state,
                   mu, req, now, calls, run, caller, resultChan, crashed,
                   roleStore,
                   osEnv, tel>>

\* (variant: the delete handler returns without resetting the breaker)
PathConfigDeleteNoReset ==
    /\ admin.pc = "idle"
    /\ \E deleted \in BOOLEAN :
         IF ~deleted
         THEN /\ admin' = AdminReturned("config_delete", "storage error")
              /\ config' = config
         ELSE /\ admin' = AdminReturned("config_delete", "nil")
              /\ config' = NilConfig
    /\ UNCHANGED <<maxFailures, resetTimeout, failures, lastFailTime, state,
                   mu, req, now, calls, run, caller, resultChan, crashed,
                   roleStore,
                   osEnv, tel>>

\* pathConfigDelete up to its call of reset().
PathConfigDelete ==
    /\ admin.pc = "idle"
    /\ \E deleted \in BOOLEAN :
         IF ~deleted
         THEN /\ admin' = AdminReturned("config_delete", "storage error")
              /\ config' = config
         ELSE /\ admin' = [pc |-> "saved", op |-> "config_delete", result |-> "none"]
              /\ config' = NilConfig
    /\ UNCHANGED <<maxFailures, resetTimeout, failures, lastFailTime, state,
                   mu, req, now, calls, run, caller, resultChan, crashed,
                   roleStore,
                   osEnv, tel>>

\* cb.mu.Lock() in the reset() the handler calls after its save or delete.
ConfigResetLock ==
    /\ admin.pc = "saved"
    /\ mu = NoOne
    /\ mu' = Admin
    /\ admin' = [admin EXCEPT !.pc = "reset"]
    /\ UNCHANGED <<maxFailures, resetTimeout, failures, lastFailTime, state,
                   config, req, now, calls, run, caller, resultChan, crashed,
                   roleStore,
                   osEnv, tel>>

\* The body of reset() with its deferred Unlock, and the handler's return of
\* (nil, nil), which follows it with nothing but a log call in between.
ConfigReset ==
    /\ admin.pc = "reset"
    /\ mu = Admin
    /\ failures' = 0
    /\ state' = "closed"
    /\ lastFailTime' = ZeroTime
    /\ mu' = NoOne
    /\ run' = 0
    /\ admin' = AdminReturned(admin.op, "nil")
    /\ UNCHANGED <<maxFailures, resetTimeout, config, req, now, calls, caller,
                   resultChan, crashed, roleStore,
                   osEnv, tel>>

NextConfig ==
    \/ Tick
    \/ \E p \in Workers : BreakerCallLock(p)
    \/ \E p \in Workers : CallPreCheck(p)
    \/ \E p \in Workers : FnReturn(p)
    \/ \E p \in Workers : PostLock(p)
    \/ \E p \in Workers : PostResult(p)
    \/ PathConfigWrite
    \/ PathConfigDelete
    \/ ConfigResetLock
    \/ ConfigReset

SpecConfig == InitConfig /\ [][NextConfig]_vars

\* ========================================================================
\* skyflowConfig.validate, called on a configuration of any content
\* ========================================================================
\* The values the fields of the configuration under validation take: below,
\* at and above each limit, and the defaults.
CredentialsFilePathValues == {"", "set"}
CredentialsJSONValues == {"", "set", NotJSON}
MaxRetriesValues ==
    {0 - 1, 0, DefaultMaxRetries, MaxRetriesLimit, MaxRetriesLimit + 1}
RequestTimeoutValues ==
    {0, 1, DefaultRequestTimeout, RequestTimeoutLimit, RequestTimeoutLimit + 1}

\* SpecValidate: a skyflowConfig with any combination of field values, as a
\* caller of validate() may build it.
InitValidate ==
    /\ newCircuitBreaker(FactoryMaxFailures, FactoryResetTimeout)
    /\ config \in [CredentialsFilePath : CredentialsFilePathValues,
                   CredentialsJSON : CredentialsJSONValues,
                   MaxRetries : MaxRetriesValues,
                   RequestTimeout : RequestTimeoutValues]
    /\ req = [p \in Workers |-> IdleReq]
    /\ now = 0
    /\ calls = 0
    /\ run = 0
    /\ InitExt

\* config.validate(): the caller receives nil or the error.
ValidateCall ==
    /\ admin = IdleAdmin
    /\ admin' = AdminReturned("validate", ValidateConfig(config))
    /\ UNCHANGED <<maxFailures, resetTimeout, failures, lastFailTime, state,
                   mu, config, req, now, calls, run, caller, resultChan,
                   crashed, roleStore,
                   osEnv, tel>>

NextValidate == ValidateCall

SpecValidate == InitValidate /\ [][NextValidate]_vars

\* ========================================================================
\* Telemetry: BuildConfig, Init, NewEmitter and the operations of the handles
\* ========================================================================
MaxEmitted == 2    \* spans, span events and metric points the sink takes

\* strings.ToLower on the values the environment variables take here.
ToLower(s) ==
    IF s = "TRUE" THEN "true" ELSE IF s = "FALSE" THEN "false" ELSE s

\* The environments with a collector of their own.
otelEndpoints ==
    [dev  |-> [Traces  |-> "https://otel-dev.example.com/otlp/v1/traces",
               Metrics |-> "https://otel-dev.example.com/otlp/v1/metrics"],
     uat  |-> [Traces  |-> "https://otel-uat.example.com/otlp/v1/traces",
               Metrics |-> "https://otel-uat.example.com/otlp/v1/metrics"],
     cug  |-> [Traces  |-> "https://otel-cug.example.com/otlp/v1/traces",
               Metrics |-> "https://otel-cug.example.com/otlp/v1/metrics"],
     prod |-> [Traces  |-> "https://otel.example.com/otlp/v1/traces",
               Metrics |-> "https://otel.example.com/otlp/v1/metrics"]]

\* The process environments of SpecTelemetry: each variable unset ("") or
\* set to one of the values the code distinguishes.
Environments ==
    [ENV : {"", "dev", "uat", "prod", "staging"},
     RUNTIME_LOCAL : {"", "true", "TRUE"},
     TELEMETRY_ENABLED : {"", "true", "1", "false"},
     TELEMETRY_TRACES_ENABLED : {"", "false"},
     TELEMETRY_METRICS_ENABLED : {"", "0"},
     OTEL_EXPORTER_OTLP_TRACES_ENDPOINT : {"", "http://collector:4318/v1/traces"},
     OTEL_EXPORTER_OTLP_METRICS_ENDPOINT : {"", "http://collector:4318/v1/metrics"}]

\* resolveStringValue(clientValue, envVar, defaultValue), envVal being the
\* value of the variable.
resolveStringValue(clientValue, envVal, defaultValue) ==
    IF clientValue # "" THEN clientValue
    ELSE IF envVal # "" THEN envVal
    ELSE defaultValue

getDefaultTracesEndpoint(e) ==
    IF e \in DOMAIN otelEndpoints THEN otelEndpoints[e].Traces ELSE ""

getDefaultMetricsEndpoint(e) ==
    IF e \in DOMAIN otelEndpoints THEN otelEndpoints[e].Metrics ELSE ""

\* BuildConfig(input) for input.Environment = environment, in the process
\* environment env: the fields of ResolvedConfig that decide what is on.
BuildConfig(environment, env) ==
    LET e1 == IF environment # "" THEN environment ELSE env.ENV
        e == IF e1 = "" THEN "unknown" ELSE e1
        runtimeLocal == ToLower(env.RUNTIME_LOCAL) = "true"
        useNoOp == IF e = "cug" \/ e = "prod" THEN FALSE ELSE runtimeLocal
        enabled == IF env.TELEMETRY_ENABLED # ""
                   THEN ToLower(env.TELEMETRY_ENABLED) = "true"
                        \/ env.TELEMETRY_ENABLED = "1"
                   ELSE TRUE
        traces0 == resolveStringValue("", env.OTEL_EXPORTER_OTLP_TRACES_ENDPOINT,
                                      getDefaultTracesEndpoint(e))
        traces == IF env.TELEMETRY_TRACES_ENABLED # ""
                     /\ (ToLower(env.TELEMETRY_TRACES_ENABLED) = "false"
                         \/ env.TELEMETRY_TRACES_ENABLED = "0")
                  THEN "" ELSE traces0
        metrics0 == resolveStringValue("", env.OTEL_EXPORTER_OTLP_METRICS_ENDPOINT,
                                       getDefaultMetricsEndpoint(e))
        metrics == IF env.TELEMETRY_METRICS_ENABLED # ""
                      /\ (ToLower(env.TELEMETRY_METRICS_ENABLED) = "false"
                          \/ env.TELEMETRY_METRICS_ENABLED = "0")
                   THEN "" ELSE metrics0
    IN  [Enabled |-> enabled, UseNoOp |-> useNoOp, Environment |-> e,
         TracesEndpoint |-> traces, MetricsEndpoint |-> metrics]

\* (*ResolvedConfig).IsTracesEnabled
IsTracesEnabled(c) == c.Enabled /\ ~c.UseNoOp /\ c.TracesEndpoint # ""

\* (*ResolvedConfig).IsMetricsEnabled
IsMetricsEnabled(c) == c.Enabled /\ ~c.UseNoOp /\ c.MetricsEndpoint # ""

\* ConfigFromEnv(): the configuration NewEmitter falls back on.
ConfigFromEnv(env) ==
    LET flag(v, default) == IF v # "" THEN ToLower(v) = "true" \/ v = "1"
                            ELSE default
    IN  [Enabled |-> flag(env.TELEMETRY_ENABLED, TRUE),
         TracesEnabled |-> flag(env.TELEMETRY_TRACES_ENABLED, TRUE),
         TracesEndpoint |-> env.OTEL_EXPORTER_OTLP_TRACES_ENDPOINT,
         MetricsEnabled |-> flag(env.TELEMETRY_METRICS_ENABLED, TRUE),
         MetricsEndpoint |-> env.OTEL_EXPORTER_OTLP_METRICS_ENDPOINT]

\* SpecTelemetry: a process in any of the environments, before Factory.
InitTelemetry ==
    /\ newCircuitBreaker(FactoryMaxFailures, FactoryResetTimeout)
    /\ config = NilConfig
    /\ req = [p \in Workers |-> IdleReq]
    /\ now = 0
    /\ calls = 0
    /\ run = 0
    /\ caller = [p \in Workers |-> IdleCaller]
    /\ resultChan = [p \in Workers |-> <<>>]
    /\ crashed = FALSE
    /\ admin = IdleAdmin
    /\ roleStore = NoStoredRole
    /\ osEnv \in Environments
    /\ tel = NoTelemetry

\* InitWithConfig(cfg): no providers when UseNoOp or not Enabled; otherwise
\* a TracesProvider and a MetricsProvider for what is enabled, and no
\* providers at all if the setup of an exporter fails.
InitWithConfig(cfg, setupFails) ==
    IF cfg.UseNoOp \/ ~cfg.Enabled \/ setupFails
    THEN [traces |-> "nil", metrics |-> "nil"]
    ELSE [traces  |-> IF IsTracesEnabled(cfg) THEN "enabled" ELSE "nil",
          metrics |-> IF IsMetricsEnabled(cfg) THEN "enabled" ELSE "nil"]

\* Factory: the environment is ENV or "unknown"; telemetry.Init builds the
\* configuration and the providers; an error leaves the backend without.
Factory ==
    /\ tel.pc = "start"
    /\ \E setupFails \in BOOLEAN :
         LET environment == IF osEnv.ENV = "" THEN "unknown" ELSE osEnv.ENV
             cfg == BuildConfig(environment, osEnv)
             fails == setupFails /\ (IsTracesEnabled(cfg) \/ IsMetricsEnabled(cfg))
             providers == InitWithConfig(cfg, fails) IN
         tel' = [tel EXCEPT !.pc = "ready", !.traces = providers.traces,
                            !.metrics = providers.metrics, !.last = "Factory"]
    /\ UNCHANGED <<maxFailures, resetTimeout, failures, lastFailTime, state,
                   mu, config, req, now, calls, run, caller, resultChan,
                   crashed, admin, roleStore, osEnv>>

\* NewEmitter with the configuration of the environment: a tracer and a
\* meter for what is enabled (neither if its exporter cannot be built), and
\* SpanTelemetry as handler if the tracer is on, NoOp otherwise.
NewEmitter ==
    /\ tel.pc = "start"
    /\ \E tracerFails \in BOOLEAN, meterFails \in BOOLEAN :
         LET cfg == ConfigFromEnv(osEnv)
             tracesOn == cfg.Enabled /\ cfg.TracesEnabled /\ cfg.TracesEndpoint # ""
             metricsOn == cfg.Enabled /\ cfg.MetricsEnabled /\ cfg.MetricsEndpoint # ""
             tracer == tracesOn /\ ~tracerFails
             meter == metricsOn /\ ~meterFails IN
         tel' = [tel EXCEPT !.pc = "ready",
                            !.emitter = IF tracer THEN "span" ELSE "noop",
                            !.metrics = IF meter THEN "enabled" ELSE "nil",
                            !.last = "NewEmitter"]
    /\ UNCHANGED <<maxFailures, resetTimeout, failures, lastFailTime, state,
                   mu, config, req, now, calls, run, caller, resultChan,
                   crashed, admin, roleStore, osEnv>>

\* Handles built directly, as the package's callers and tests do: a nil or
\* a disabled TracesProvider, a nil or a disabled MetricsProvider, NoOp or a
\* SpanTelemetry without provider.
NewHandles ==
    /\ tel.pc = "start"
    /\ \E t \in {"nil", "disabled"}, m \in {"nil", "disabled"},
          e \in {"nil", "noop", "span_nil"} :
         tel' = [tel EXCEPT !.pc = "ready", !.traces = t, !.metrics = m,
                            !.emitter = e, !.last = "NewHandles"]
    /\ UNCHANGED <<maxFailures, resetTimeout, failures, lastFailTime, state,
                   mu, config, req, now, calls, run, caller, resultChan,
                   crashed, admin, roleStore, osEnv>>

\* Reading the field 'enabled' through the handle h: a nil pointer panics.
EnabledField(h) ==
    IF h = "nil" THEN "panic" ELSE IF h = "enabled" THEN "true" ELSE "false"

\* (variant: IsEnabled without the nil check)
IsEnabledNoNilCheck(h) == EnabledField(h)

\* (*TracesProvider).IsEnabled and (*MetricsProvider).IsEnabled:
\* t != nil && t.enabled
IsEnabled(h) == IF h = "nil" THEN "false" ELSE EnabledField(h)

\* The Start methods of TracesProvider, one per kind of operation.
StartEvents ==
    {"TokenGenerate", "SDKAuth", "ConfigWrite", "ConfigRead", "RoleWrite",
     "RoleRead", "RoleList", "RoleDelete", "HealthCheck"}

\* The Record methods of TracesProvider.
RecordEvents ==
    {"SDKAuthSuccess", "SDKAuthFailed", "TokenGenerated", "TokenFailed",
     "ConfigUpdated", "ConfigFound", "ConfigError", "ConfigErrorWithMessage",
     "RoleUpdated", "RoleFound", "RoleDeleted", "RoleError",
     "RoleErrorWithMessage", "RoleListSuccess", "HealthCheckSuccess",
     "HealthCheckNotConfigured", "HealthCheckError"}

\* The Record methods that do nothing but recordError(span, err).
ErrorOnlyEvents == {"ConfigError", "RoleError", "HealthCheckError"}

\* The Record methods of MetricsProvider.
MetricEvents ==
    {"TokenGenerate", "TokenError", "ConfigWrite", "RoleWrite", "ConfigError",
     "RoleError", "ConfigRead", "RoleRead", "HealthCheck", "SkyflowSDKCall",
     "SkyflowSDKCallError"}

\* The methods of the Telemetry interface.
TelemetryEvents ==
    {"OnTokenRequest", "OnTokenGenerate", "OnConfigWrite", "OnConfigRead",
     "OnRoleWrite", "OnRoleRead", "OnError", "EndSpan"}

\* What the sink holds.
Emitted == tel.spans + tel.events + tel.points

\* The operation panicked.
Panicked(op) == [tel EXCEPT !.panicked = TRUE, !.last = op]

\* noopSpan(ctx): a span of the tracer provider of the span in ctx, which
\* is the no-op provider unless ctx carries a recording span.
noopSpan(op) ==
    IF tel.ctx = "recording"
    THEN [tel EXCEPT !.spans = @ + 1, !.last = op]
    ELSE [tel EXCEPT !.last = op]

\* traces.Start<ev>(ctx, ...): the context and the span it returns become
\* the request's.
TracesStart ==
    /\ tel.pc = "ready"
    /\ ~tel.panicked
    /\ Emitted < MaxEmitted
    /\ \E ev \in StartEvents :
         LET on == IsEnabled(tel.traces) IN
         tel' = IF on = "panic" THEN Panicked("traces_start")
                ELSE IF on = "false" THEN noopSpan("traces_start")
                ELSE [tel EXCEPT !.ctx = "recording", !.spans = @ + 1,
                                 !.last = "traces_start"]
    /\ UNCHANGED <<maxFailures, resetTimeout, failures, lastFailTime, state,
                   mu, config, req, now, calls, run, caller, resultChan,
                   crashed, admin, roleStore, osEnv>>

\* traces.Record<ev>(span, ...) with the request's span or a nil span, and
\* with or without an error: addEvent, setAttributes, setOK and recordError
\* write only if the provider is enabled and the span is recording, and
\* recordError only if there is an error.
TracesRecord ==
    /\ tel.pc = "ready"
    /\ ~tel.panicked
    /\ Emitted < MaxEmitted
    /\ \E ev \in RecordEvents, nilSpan \in BOOLEAN, hasErr \in BOOLEAN :
         LET on == IsEnabled(tel.traces)
             recording == ~nilSpan /\ tel.ctx = "recording"
             writes == ev \notin ErrorOnlyEvents \/ hasErr IN
         tel' = IF on = "panic" THEN Panicked("traces_record")
                ELSE IF on = "true" /\ recording /\ writes
                THEN [tel EXCEPT !.events = @ + 1, !.last = "traces_record"]
                ELSE [tel EXCEPT !.last = "traces_record"]
    /\ UNCHANGED <<maxFailures, resetTimeout, failures, lastFailTime, state,
                   mu, config, req, now, calls, run, caller, resultChan,
                   crashed, admin, roleStore, osEnv>>

\* span.End() on the request's span, as the handlers defer it.
SpanEnd ==
    /\ tel.pc = "ready"
    /\ ~tel.panicked
    /\ tel' = [tel EXCEPT !.ctx = "none", !.last = "span_end"]
    /\ UNCHANGED <<maxFailures, resetTimeout, failures, lastFailTime, state,
                   mu, config, req, now, calls, run, caller, resultChan,
                   crashed, admin, roleStore, osEnv>>

\* if m := b.metrics(); m != nil { m.Record<ev>(ctx, ...) }, and the same
\* call without the guard, which the nil-safe methods allow.
MetricsRecord ==
    /\ tel.pc = "ready"
    /\ ~tel.panicked
    /\ Emitted < MaxEmitted
    /\ \E ev \in MetricEvents, guarded \in BOOLEAN :
         LET on == IF guarded /\ tel.metrics = "nil" THEN "false"
                   ELSE IsEnabled(tel.metrics) IN
         tel' = IF on = "panic" THEN Panicked("metrics_record")
                ELSE IF on = "true"
                THEN [tel EXCEPT !.points = @ + 1, !.last = "metrics_record"]
                ELSE [tel EXCEPT !.last = "metrics_record"]
    /\ UNCHANGED <<maxFailures, resetTimeout, failures, lastFailTime, state,
                   mu, config, req, now, calls, run, caller, resultChan,
                   crashed, admin, roleStore, osEnv>>

\* The methods of NoOp: the context comes back as it was, nothing else
\* happens.
NoOpOn(ev) == [tel EXCEPT !.last = "telemetry"]

\* The methods of SpanTelemetry over a provider that is on (providerOn) or
\* nil or off: the start methods open a span (and end it at once, except
\* OnTokenRequest), the others write to the span of the context if it is
\* recording.
SpanTelemetryOn(ev, providerOn) ==
    IF ev = "OnTokenRequest"
    THEN IF providerOn
         THEN [tel EXCEPT !.ctx = "recording", !.spans = @ + 1,
                          !.last = "telemetry"]
         ELSE [tel EXCEPT !.last = "telemetry"]
    ELSE IF ev \in {"OnConfigWrite", "OnConfigRead", "OnRoleWrite", "OnRoleRead"}
    THEN IF providerOn
         THEN [tel EXCEPT !.ctx = IF ev \in {"OnConfigWrite", "OnRoleWrite"}
                                  THEN "none" ELSE @,
                          !.spans = @ + 1, !.last = "telemetry"]
         ELSE [tel EXCEPT !.last = "telemetry"]
    ELSE IF ev = "EndSpan"
    THEN [tel EXCEPT !.ctx = "none", !.last = "telemetry"]
    ELSE IF tel.ctx = "recording"
    THEN [tel EXCEPT !.events = @ + 1, !.last = "telemetry"]
    ELSE [tel EXCEPT !.last = "telemetry"]

\* The events the emitter also counts as a metric when its meter is on:
\* EmitTokenSuccess, EmitTokenFailure, and EmitConfigWrite and EmitRoleWrite
\* of a successful operation.
MeteredEvents == {"OnTokenGenerate", "OnConfigWrite", "OnRoleWrite"}

\* if b.emitter != nil { b.emitter.Emit...(ctx, ...) }: the emitter records
\* the metric of the event if metrics are on and hands the event to its
\* handler, NoOp or SpanTelemetry.
Emit ==
    /\ tel.pc = "ready"
    /\ ~tel.panicked
    /\ Emitted < MaxEmitted
    /\ \E ev \in TelemetryEvents, success \in BOOLEAN :
         LET metered == /\ ev \in MeteredEvents
                        /\ (success \/ ev = "OnTokenGenerate")
                        /\ IsEnabled(tel.metrics) = "true"
             handled == IF tel.emitter = "noop" THEN NoOpOn(ev)
                        ELSE SpanTelemetryOn(ev, tel.emitter = "span") IN
         tel' = IF tel.emitter = "nil" THEN [tel EXCEPT !.last = "telemetry"]
                ELSE [handled EXCEPT !.points = IF metered THEN @ + 1 ELSE @]
    /\ UNCHANGED <<maxFailures, resetTimeout, failures, lastFailTime, state,
                   mu, config, req, now, calls, run, caller, resultChan,
                   crashed, admin, roleStore, osEnv>>

NextTelemetry ==
    \/ Factory
    \/ NewEmitter
    \/ NewHandles
    \/ TracesStart
    \/ TracesRecord
    \/ SpanEnd
    \/ MetricsRecord
    \/ Emit

SpecTelemetry == InitTelemetry /\ [][NextTelemetry]_vars

\* ========================================================================
\* pathHealthRead: the health check that probes the upstream through
\* generateToken, next to token requests on the same breaker
\* ========================================================================
ExtraCalls == 1        \* SpecHealth: calls beyond those that open the breaker

\* The frame of a pathHealthRead that is at its call of generateToken.
Probing == [IdleCaller EXCEPT !.pc = "probe"]

\* The response of pathHealthRead: healthy, the error if any, and the
\* breaker's statistics where the handler got as far as getStats().
HealthResponse(healthy, err, stats) ==
    [pc |-> "idle", deadline |-> 0, go |-> "none", sends |-> 0,
     retToken |-> "nil", retErr |-> err, healthy |-> healthy, stats |-> stats]

\* The response carries no statistics.
NoStats == [state |-> "none", failures |-> 0 - 1, max_failures |-> 0 - 1]

\* circuitBreaker.getStats(), without the two time fields.
getStats == [state |-> state, failures |-> failures, max_failures |-> maxFailures]

\* No request is being served: SpecHealth serves its requests one after the
\* other.
NoRequestInProgress ==
    \A q \in Workers : caller[q].pc = "idle" /\ req[q].pc = "idle"

\* SpecHealth: the backend as Factory builds it; generateToken may receive
\* any configuration, and storage may hold none.
InitHealth ==
    /\ newCircuitBreaker(FactoryMaxFailures, FactoryResetTimeout)
    /\ config \in Configs \cup {NilConfig}
    /\ req = [p \in Workers |-> IdleReq]
    /\ now = 0
    /\ calls = 0
    /\ run = 0
    /\ InitExt

\* A token request on a configured backend enters generateToken(config,
\* role).
TokenRequest(p) ==
    /\ NoRequestInProgress
    /\ config # NilConfig
    /\ calls < FactoryMaxFailures + ExtraCalls
    /\ \E r \in Roles : Lock(p, r)

\* pathHealthRead up to its call of generateToken: the configuration is
\* loaded; a load error and a missing configuration end the handler.
PathHealthRead(p) ==
    /\ NoRequestInProgress
    /\ \E loaded \in BOOLEAN :
         IF ~loaded
         THEN /\ caller' = [caller EXCEPT ![p] =
                    HealthResponse(FALSE, "failed to load configuration",
                                   NoStats)]
              /\ req' = req
         ELSE IF config = NilConfig
         THEN /\ caller' = [caller EXCEPT ![p] =
                    HealthResponse(FALSE, "backend not configured", NoStats)]
              /\ req' = req
         ELSE /\ calls < FactoryMaxFailures + ExtraCalls
              /\ caller' = [caller EXCEPT ![p] = Probing]
              /\ req' = [req EXCEPT ![p] = IdleReq]
    /\ UNCHANGED <<maxFailures, resetTimeout, failures, lastFailTime, state,
                   mu, config, now, calls, run, resultChan, crashed, admin,
                   roleStore, osEnv, tel>>

\* (variant: the health check calls the SDK itself, past the breaker)
ProbeLockBypassesBreaker(p) ==
    /\ caller[p].pc = "probe"
    /\ req[p] = IdleReq
    /\ calls' = calls + 1
    /\ req' = [req EXCEPT ![p] =
                 [IdleReq EXCEPT !.pc = "fn", !.role = NoRole,
                                 !.admitted = "closed"]]
    /\ UNCHANGED ext
    /\ UNCHANGED <<maxFailures, resetTimeout, failures, lastFailTime, state,
                   mu, config, now, run>>

\* testRole := defaultRole("health-check"); b.generateToken(config,
\* testRole): the probe enters circuitBreaker.call.
ProbeLock(p) ==
    /\ caller[p].pc = "probe"
    /\ req[p] = IdleReq
    /\ Lock(p, NoRole)

\* generateToken has returned to pathHealthRead: the response is filled in
\* from its error and from getStats(), which reads under the lock.
HealthReturn(p) ==
    /\ caller[p].pc = "probe"
    /\ req[p].pc = "idle"
    /\ req[p].retErr # "none"
    /\ mu = NoOne
    /\ caller' = [caller EXCEPT ![p] =
                    HealthResponse(req[p].retErr = "nil", req[p].retErr,
                                   getStats)]
    /\ UNCHANGED <<maxFailures, resetTimeout, failures, lastFailTime, state,
                   mu, config, req, now, calls, run, resultChan, crashed,
                   admin, roleStore, osEnv, tel>>

\* The worker that serves the requests of SpecHealth.
Server == CHOOSE p \in Workers : TRUE

NextHealth ==
    \/ Tick
    \/ TokenRequest(Server)
    \/ PathHealthRead(Server)
    \/ ProbeLock(Server)
    \/ CallPreCheck(Server)
    \/ Attempt(Server)
    \/ WakeUp(Server)
    \/ PostLock(Server)
    \/ PostResult(Server)
    \/ HealthReturn(Server)

SpecHealth == InitHealth /\ [][NextHealth]_vars

\* ========================================================================
\* Properties
\* ========================================================================
\* The step in which caller p leaves the pre-check.
PreStep(p) == req[p].pc = "pre" /\ req'[p].pc # "pre"

\* The step in which caller p does its post-result bookkeeping and returns.
PostStep(p) == req[p].pc = "post" /\ req'[p].pc = "idle"

\* The step is the body of reset().
ResetStep == mu = Admin /\ mu' = NoOne

\* C1: in every reachable state, also with overlapping calls, state = open
\* implies failures >= maxFailures.
C1_OpenImpliesFailuresAtMax ==
    state = "open" => failures >= maxFailures

\* C2: a call whose pre-check finds the breaker open with less than
\* resetTimeout elapsed since lastFailTime returns the circuit-open error
\* and never runs its operation (it goes straight back to its caller, and
\* the breaker stays open).
C2_RejectsWhileOpen ==
    [][\A p \in Procs :
          (/\ PreStep(p)
           /\ state = "open"
           /\ lastFailTime # ZeroTime
           /\ now - lastFailTime < resetTimeout)
          => (/\ req'[p].pc = "idle"
              /\ req'[p].retErr = "circuit_open"
              /\ req'[p].retToken = "nil"
              /\ req'[p].fnErr = "none"
              /\ state' = "open")]_vars

\* A call has been rejected by an open breaker within the reset timeout.
C2_Witness ==
    \E p \in Procs :
        /\ req[p].pc = "idle"
        /\ req[p].retErr = "circuit_open"
        /\ state = "open"
        /\ now - lastFailTime < resetTimeout

\* C3: apart from reset(), state changes only closed -> open (by the
\* recorded failure that brings failures to maxFailures), open -> half-open
\* (by the pre-check of a call arriving after resetTimeout has elapsed),
\* half-open -> closed (by a recorded success) and half-open -> open (by a
\* recorded failure).
C3_OnlyFourEdges ==
    [][(state' # state /\ ~ResetStep) =>
          \/ /\ state = "closed" /\ state' = "open"
             /\ failures' = maxFailures
             /\ \E p \in Procs : PostStep(p) /\ req[p].fnErr # "nil"
          \/ /\ state = "open" /\ state' = "half-open"
             /\ now - lastFailTime > resetTimeout
             /\ \E p \in Procs : PreStep(p) /\ req'[p].pc = "fn"
          \/ /\ state = "half-open" /\ state' = "closed"
             /\ \E p \in Procs : PostStep(p) /\ req[p].fnErr = "nil"
          \/ /\ state = "half-open" /\ state' = "open"
             /\ \E p \in Procs : PostStep(p) /\ req[p].fnErr # "nil"]_vars

\* With maxFailures = 1 a breaker that is closed and remembers a failure
\* has gone closed -> open -> half-open -> closed without a reset.
C3_Witness ==
    /\ maxFailures = 1
    /\ state = "closed"
    /\ lastFailTime # ZeroTime

\* C4: a call admitted while the breaker is half-open (the call that moved it
\* there, or one that found it there) whose operation fails leaves the
\* breaker open.
C4_HalfOpenFailureOpens ==
    [][\A p \in Procs :
          (/\ PostStep(p)
           /\ req[p].admitted \in {"open", "half-open"}
           /\ req[p].fnErr # "nil")
          => state' = "open"]_vars

\* C5: a call whose pre-check finds the breaker open with more than
\* resetTimeout elapsed moves it to half-open and runs its operation; if
\* the operation succeeds the breaker is afterwards closed with failures = 0.
C5_TrialSuccessCloses ==
    [][\A p \in Procs :
          /\ (/\ PreStep(p)
              /\ state = "open"
              /\ now - lastFailTime > resetTimeout)
             => (state' = "half-open" /\ req'[p].pc = "fn")
          /\ (/\ PostStep(p)
              /\ req[p].admitted = "open"
              /\ req[p].fnErr = "nil")
             => (state' = "closed" /\ failures' = 0)]_vars

\* C6: counting from construction or reset, while fewer than maxFailures
\* operations have been recorded and all of them failed the breaker is
\* closed, and the failure that is the maxFailures-th of such a run leaves
\* it open.
C6_OpensAtMaxFailures ==
    /\ []((run >= 0 /\ run < maxFailures) => state = "closed")
    /\ [][\A p \in Procs :
            (PostStep(p) /\ req[p].fnErr # "nil" /\ run' = maxFailures)
            => state' = "open"]_vars

\* Two failures in a row have opened a breaker whose threshold is two.
C6_Witness ==
    /\ maxFailures = 2
    /\ run = 2
    /\ state = "open"
    /\ failures = 2

\* C7: the mutex is held by a caller only during its pre-check and its
\* post-result bookkeeping, never while its operation runs; so whenever no
\* caller is in one of these two sections and reset() is not running, the
\* mutex is free for getState, getStats, reset and other calls.
C7_LockNotHeldDuringOperation ==
    /\ \A p \in Procs : mu = p => req[p].pc \in {"pre", "post"}
    /\ ((\A p \in Procs : req[p].pc \notin {"pre", "post"}) /\ mu # Admin)
         => mu = NoOne

\* While one caller's operation runs, another caller or reset() holds the
\* mutex.
C7_Witness ==
    \E p \in Procs :
        /\ req[p].pc = "fn"
        /\ req[p].admitted = "open"
        /\ mu \notin {NoOne, p}

\* ------------------------------------------------------------------------
\* The retry loop (SpecToken)
\* ------------------------------------------------------------------------
\* Request p made maxRetries+1 exchange attempts and the last one failed
\* (so all of them did: the loop returns at the first success).
AllAttemptsFailed(p) ==
    /\ req[p].exchanges = config.MaxRetries + 1
    /\ ~(req[p].lastErr = "nil" /\ req[p].token # "nil")
    /\ req[p].fnErr \in {"exhausted", "no_token"}

\* Request p returned at once, without any attempt, for want of credentials.
FailedWithoutCredentials(p) ==
    /\ req[p].exchanges = 0
    /\ CredentialSource(req[p].role, config) = "none"
    /\ req[p].fnErr = "no_credentials"

\* Request p obtained a token at its last attempt.
RequestSucceeded(p) ==
    /\ req[p].exchanges >= 1
    /\ req[p].lastErr = "nil"
    /\ req[p].token # "nil"

\* C8 as stated: one token request raises the failure count by at most one,
\* and only when all maxRetries+1 attempts failed; a request that succeeds,
\* also on a later attempt, is recorded as a success.
C8_OneFailurePerExhaustedRequest ==
    [][/\ failures' > failures =>
            /\ failures' = failures + 1
            /\ \E p \in Workers : PostStep(p) /\ AllAttemptsFailed(p)
       /\ \A p \in Workers :
            (PostStep(p) /\ RequestSucceeded(p)) =>
                (failures' = 0 /\ req'[p].retErr = "nil")]_vars

\* C8 amended: one token request raises the failure count by at most one,
\* and only when all maxRetries+1 attempts failed or when it failed without
\* any attempt because no credential is configured; a request that
\* succeeds, also on a later attempt, is recorded as a success.
C8_OneFailurePerFailedRequest ==
    [][/\ failures' > failures =>
            /\ failures' = failures + 1
            /\ \E p \in Workers :
                 /\ PostStep(p)
                 /\ AllAttemptsFailed(p) \/ FailedWithoutCredentials(p)
       /\ \A p \in Workers :
            (PostStep(p) /\ RequestSucceeded(p)) =>
                (failures' = 0 /\ req'[p].retErr = "nil")]_vars

\* The first request used up its three attempts and counts as one failure.
C8_Witness ==
    /\ calls = 1
    /\ config.MaxRetries = 2
    /\ failures = 1
    /\ \E p \in Workers : req[p].pc = "idle" /\ req[p].retErr = "exhausted"

\* C9: the loop never makes more than maxRetries+1 exchange attempts, and
\* when it has returned with its last attempt failed it has made exactly
\* maxRetries+1 attempts and returns an error.
C9_ExactlyMaxRetriesPlusOneAttempts ==
    \A p \in Workers :
        /\ req[p].exchanges <= config.MaxRetries + 1
        /\ (/\ req[p].pc \in {"ret", "post"}
            /\ CredentialSource(req[p].role, config) # "none"
            /\ ~(req[p].lastErr = "nil" /\ req[p].token # "nil"))
           => (/\ req[p].exchanges = config.MaxRetries + 1
               /\ req[p].fnErr \in {"exhausted", "no_token"})

\* A loop with maxRetries = 2 has returned after three failed attempts.
C9_Witness ==
    \E p \in Workers :
        /\ req[p].pc = "ret"
        /\ config.MaxRetries = 2
        /\ req[p].exchanges = 3
        /\ req[p].fnErr = "exhausted"

\* The backoff after the failed attempt with index k, in seconds.
ExpectedBackoff == <<1, 2, 4, 8, 16, 32, 64, 128, 256, 512, 1024>>

\* C10: the sleeps of a request are 1s, 2s, 4s, ... in this order, one after
\* every failed attempt that is not the last one and none after the final
\* or a successful attempt; a sleep after attempt k lasts until 2^k seconds
\* have passed, and only then does attempt k+1 start.
C10_ExponentialBackoff ==
    /\ [](\A p \in Workers :
            /\ \A i \in 1..Len(req[p].slept) :
                   req[p].slept[i] = ExpectedBackoff[i]
            /\ req[p].pc = "sleep" =>
                   /\ Len(req[p].slept) = req[p].attempt + 1
                   /\ req[p].exchanges = req[p].attempt + 1
            /\ req[p].pc = "fn" =>
                   Len(req[p].slept) =
                       IF req[p].attempt <= config.MaxRetries
                       THEN req[p].attempt ELSE config.MaxRetries
            /\ req[p].pc \in {"ret", "post"} =>
                   Len(req[p].slept) =
                       IF req[p].exchanges = 0 THEN 0
                       ELSE req[p].exchanges - 1)
    /\ [][\A p \in Workers :
            /\ (req[p].pc = "fn" /\ req'[p].pc = "sleep") =>
                   req'[p].wakeAt = now + ExpectedBackoff[req[p].attempt + 1]
            /\ (req[p].pc = "sleep" /\ req'[p].pc # "sleep") =>
                   /\ now >= req[p].wakeAt
                   /\ req'[p].pc = "fn"
                   /\ req'[p].attempt = req[p].attempt + 1
                   /\ req'[p].exchanges = req[p].exchanges]_vars

\* A request has slept 1s and 2s between its three attempts.
C10_Witness ==
    \E p \in Workers :
        /\ req[p].pc = "ret"
        /\ req[p].slept = <<1, 2>>
        /\ req[p].exchanges = 3
        /\ now >= 3


\* The step in which worker p's retry loop makes one more exchange call.
ExchangeStep(p) == req'[p].exchanges > req[p].exchanges

\* The step in which worker p's backoff sleep runs to its end.
SleepEnds(p) == req[p].pc = "sleep" /\ req'[p].pc = "fn"

\* C11: once generateTokenWithTimeout has returned the timeout error for a
\* request, the retry loop of that request makes no further exchange call and
\* no backoff sleep of it is waited out.
C11_NoAttemptAfterDeadline ==
    [][\A p \in Workers :
          caller[p].retErr = "timeout" => ~ExchangeStep(p) /\ ~SleepEnds(p)]_vars

\* The step in which generateTokenWithTimeout of request p returns.
CallerReturns(p) == caller[p].pc = "waiting" /\ caller'[p].pc = "idle"

\* The errors generateToken (the issuance procedure) can return.
IssuanceErrors == {"circuit_open", "no_credentials", "exhausted", "no_token"}

\* C12: while the process is alive, a generateTokenWithTimeout whose deadline
\* has been reached can return whatever its goroutine is doing, also when
\* generateToken never returns; a return that takes no result from the
\* channel happens at or after the deadline and yields a nil token and the
\* timeout error; and the timeout error is none of the errors generateToken
\* returns or sends.
C12_TimeoutAtDeadline ==
    /\ [](\A p \in Workers :
            (~crashed /\ caller[p].pc = "waiting" /\ now >= caller[p].deadline)
                => ENABLED TimeoutReturn(p))
    /\ [][\A p \in Workers :
            (CallerReturns(p) /\ resultChan'[p] = resultChan[p])
                => /\ caller'[p].retToken = "nil"
                   /\ caller'[p].retErr = "timeout"
                   /\ now >= caller[p].deadline]_vars
    /\ [](\A p \in Workers :
            /\ req[p].retErr # "timeout"
            /\ req[p].retErr # "none" => req[p].retErr \in IssuanceErrors \cup {"nil"}
            /\ \A i \in 1..Len(resultChan[p]) :
                   resultChan[p][i].err \in IssuanceErrors \cup {"nil"})

\* C12 witness: the request has returned the timeout error while its
\* goroutine is still inside the retry loop and has sent nothing.
C12_Witness ==
    \E p \in Workers :
        /\ caller[p].retErr = "timeout"
        /\ caller[p].retToken = "nil"
        /\ req[p].pc \in {"fn", "sleep"}
        /\ caller[p].sends = 0
        /\ resultChan[p] = <<>>

\* C13: the goroutine of a request sends at most one result and the channel
\* never holds more than its single slot; a goroutine that has its result in
\* hand can always send it, whether its caller is still waiting or has
\* returned; and once a request has returned the timeout error its results
\* stay (nil, timeout) and nothing is received from its channel any more.
C13_LateResultDiscarded ==
    /\ [](\A p \in Workers :
            /\ caller[p].sends <= 1
            /\ Len(resultChan[p]) <= ResultChanCap
            /\ (~crashed /\ AtSend(p)) => ENABLED Send(p))
    /\ [][\A p \in Workers :
            caller[p].retErr = "timeout"
                => /\ caller'[p].retErr = "timeout"
                   /\ caller'[p].retToken = "nil"
                   /\ caller'[p].pc = "idle"
                   /\ Len(resultChan'[p]) >= Len(resultChan[p])]_vars

\* C13 witness: the request has returned the timeout error and the late
\* result of its goroutine has been sent into the channel.
C13_Witness ==
    \E p \in Workers :
        /\ caller[p].retErr = "timeout"
        /\ caller[p].go = "sent"
        /\ caller[p].sends = 1
        /\ Len(resultChan[p]) = 1

\* Neither the role nor the configuration holds a credential.
NoCredentials(role, cfg) ==
    /\ role.CredentialsFilePath = ""
    /\ role.CredentialsJSON = ""
    /\ cfg.CredentialsFilePath = ""
    /\ cfg.CredentialsJSON = ""

\* C14: a generateToken whose role and configuration hold no credential
\* makes no exchange call, never sleeps and never advances its attempt
\* counter, and it returns a nil token with an error.
C14_NoCredentialsFailsImmediately ==
    /\ [](\A p \in Workers :
            (req[p].pc # "idle" /\ NoCredentials(req[p].role, config))
                => /\ req[p].exchanges = 0
                   /\ req[p].attempt = 0
                   /\ req[p].slept = <<>>
                   /\ req[p].pc # "sleep"
                   /\ req[p].fnErr \in {"none", "no_credentials"})
    /\ [][\A p \in Workers :
            (req[p].pc # "idle" /\ req'[p].pc = "idle"
             /\ NoCredentials(req[p].role, config))
                => /\ req'[p].retToken = "nil"
                   /\ req'[p].retErr \in {"no_credentials", "circuit_open"}]_vars

\* C14 witness: a request without any credential has returned its error.
C14_Witness ==
    /\ NoCredentials(NoRole, config)
    /\ \E p \in Workers :
          /\ req[p].pc = "idle"
          /\ req[p].retErr = "no_credentials"
          /\ req[p].retToken = "nil"

\* C15: a generateToken that reports success (nil error) returns a non-nil
\* token whose access-token field is not empty.
C15_SuccessHasAccessToken ==
    \A p \in Workers :
        (req[p].pc = "idle" /\ req[p].retErr = "nil") => req[p].retToken = "tok"

\* C16: a panic of the exchange call never kills the process.
C16_PanicNeverCrashes == ~crashed

\* C17 (as claimed): a generateToken that was handed a role whose number of
\* role IDs is not one returns without having made an exchange call.
C17_GenerateTokenChecksRoleIDs ==
    \A p \in Workers :
        (req[p].via # "none" /\ req[p].roleIDs # 1) => req[p].exchanges = 0

\* C17 (amended): a role is stored only with exactly one role ID, a write
\* that validate() rejects leaves the store as it was, and every exchange
\* call made for a request of the token endpoint carries exactly one role ID.
C17_OnlyValidRolesReachExchange ==
    /\ [](roleStore \in {NoStoredRole, 1})
    /\ [][(admin'.op = "role_write" /\ admin'.result # "nil")
            => roleStore' = roleStore]_vars
    /\ [](\A p \in Workers :
            req[p].via = "endpoint"
                => /\ req[p].pc = "issue" => req[p].roleIDs = 1
                   /\ req[p].exchanges > 0 => req[p].exchangedIDs = 1)

\* C17 witness: a request of the token endpoint has made its exchange call
\* with one role ID, and a write of a role with several IDs was rejected.
C17_Witness ==
    /\ admin.op = "role_write"
    /\ admin.result = "only one role_id is supported"
    /\ roleStore = 1
    /\ \E p \in Workers :
          /\ req[p].via = "endpoint"
          /\ req[p].exchanges > 0
          /\ req[p].exchangedIDs = 1

\* C18: no token request ends in a panic that kills the process, and every
\* token request that has returned holds either a token and a nil error or
\* no token and an error.
C18_TokenXorError ==
    /\ ~crashed
    /\ \A p \in Workers :
          caller[p].retErr # "none"
              => (caller[p].retToken # "nil") # (caller[p].retErr # "nil")

\* The step in which pathConfigWrite or pathConfigDelete returns (nil, nil).
ConfigHandlerSucceeds ==
    /\ admin'.pc = "idle"
    /\ admin'.op \in {"config_write", "config_delete"}
    /\ admin'.result = "nil"
    /\ (admin.pc # "idle" \/ admin' # admin \/ config' # config)

C20_ResetYieldsClosedZero ==
    [][ResetStep
          => /\ state' = "closed"
             /\ failures' = 0
             /\ lastFailTime' = ZeroTime
             /\ maxFailures' = maxFailures
             /\ resetTimeout' = resetTimeout]_vars

\* C20 witness: the breaker had opened and rejected a call, and a reset()
\* has since brought it back to closed with nothing recorded after it.
C20_Witness ==
    /\ \E p \in Procs : req[p].retErr = "circuit_open"
    /\ admin = IdleAdmin
    /\ mu = NoOne
    /\ state = "closed"
    /\ failures = 0
    /\ lastFailTime = ZeroTime
    /\ run = 0
    /\ calls >= maxFailures + 1

\* A step of pathConfigWrite for a request that carries both
\* credentials_file_path and credentials_json.
WriteWithBothCredentials ==
    /\ admin.pc = "idle"
    /\ \E update \in BOOLEAN, retries \in RetryInputs, timeout \in TimeoutInputs :
         PathConfigWriteRequest(update, "set", "set", retries, timeout)
    /\ UNCHANGED <<maxFailures, resetTimeout, failures, lastFailTime, state,
                   mu, req, now, calls, run, caller, resultChan, crashed,
                   roleStore,
                   osEnv, tel>>

\* C21: a configuration write request that supplies both
\* credentials_file_path and credentials_json returns a validation error, and
\* the stored configuration stays as it was.
C21_BothCredentialsRejected ==
    [][WriteWithBothCredentials
          => /\ admin' = AdminReturned("config_write",
                     "only one of credentials_file_path or credentials_json can be provided")
             /\ config' = config]_vars

\* The error values of skyflowRole.validate().
RoleValidationErrors == {"role_ids is required", "only one role_id is supported"}

\* A step of pathRoleWrite for the given request.
RoleWriteStep(update, given, ids) ==
    /\ admin.pc = "idle"
    /\ PathRoleWriteRequest(update, given, ids)
    /\ UNCHANGED <<maxFailures, resetTimeout, failures, lastFailTime,
                   state, mu, config, req, now, calls, run, caller,
                   resultChan, crashed,
                   osEnv, tel>>

\* C22: every stored role has exactly one role ID; a role write whose request
\* names zero role IDs or two or more returns a validation error and leaves
\* the stored role as it was, a create without role IDs likewise, and a role
\* write stores a role only when it returns without error, and then a role
\* with one role ID.
C22_StoredRolesHaveOneRoleID ==
    /\ [](roleStore \in {NoStoredRole, 1})
    /\ [][\A update \in BOOLEAN, ids \in 0..MaxRoleIDs :
            (ids # 1 /\ RoleWriteStep(update, TRUE, ids))
               => /\ admin'.result \in RoleValidationErrors
                  /\ roleStore' = roleStore]_vars
    /\ [][RoleWriteStep(FALSE, FALSE, 0)
            => /\ admin'.result \in RoleValidationErrors
               /\ roleStore' = roleStore]_vars
    /\ [][(\E update \in BOOLEAN, given \in BOOLEAN, ids \in 0..MaxRoleIDs :
               RoleWriteStep(update, given, ids))
            => /\ admin'.result # "nil" => roleStore' = roleStore
               /\ admin'.result = "nil" => roleStore' = 1]_vars

\* C22 witness: a role with one role ID is stored, and the last role write
\* was turned down for having more than one.
C22_Witness ==
    /\ roleStore = 1
    /\ admin = [pc |-> "idle", op |-> "role_write",
                result |-> "only one role_id is supported"]

\* Exactly one of the two credential sources of c is set.
ExactlyOneSource(c) ==
    (c.CredentialsFilePath # "") # (c.CredentialsJSON # "")

\* Both numeric settings of c are within their limits.
SettingsInRange(c) ==
    /\ c.MaxRetries \in 0..MaxRetriesLimit
    /\ c.RequestTimeout \in 1..RequestTimeoutLimit

\* C23 as stated: validate() accepts a configuration if and only if exactly
\* one credential source is set, maxRetries is within [0,10] and
\* requestTimeout is within [1,300].
C23_ValidateAcceptsIff ==
    admin.op = "validate"
        => ((admin.result = "nil")
               <=> (ExactlyOneSource(config) /\ SettingsInRange(config)))

\* C23 as amended: validate() accepts a configuration if and only if exactly
\* one credential source is set, a credentials_json that is set is valid
\* JSON, maxRetries is within [0,10] and requestTimeout is within [1,300];
\* in every other case it returns an error.
C23_ValidateAcceptsIffWellFormed ==
    admin.op = "validate"
        => ((admin.result = "nil")
               <=> /\ ExactlyOneSource(config)
                   /\ config.CredentialsJSON # NotJSON
                   /\ SettingsInRange(config))

\* C23 witness: validate() has accepted a configuration with inline
\* credentials whose settings sit on the limits.
C23_Witness ==
    /\ admin = AdminReturned("validate", "nil")
    /\ config.CredentialsJSON = "set"
    /\ config.MaxRetries = MaxRetriesLimit
    /\ config.RequestTimeout = 1

\* The handles that are nil, disabled or the no-op implementation.
TracesOff == tel.traces \in {"nil", "disabled"}
MetricsOff == tel.metrics \in {"nil", "disabled"}
HandlerOff == tel.emitter \in {"nil", "noop", "span_nil"}

C25_DevDisablesTelemetry ==
    (tel.last = "Factory" /\ osEnv.ENV = "dev")
        => (tel.traces # "enabled" /\ tel.metrics # "enabled")

\* The step changes what the breaker has recorded: its failure count, the
\* time of its last failure, or its state other than by the pre-check's
\* move from open to half-open at admission.
BookkeepingChange ==
    \/ failures' # failures
    \/ lastFailTime' # lastFailTime
    \/ (state' # state /\ ~(state = "open" /\ state' = "half-open"))

\* C26: each admitted call does its post-result bookkeeping once, when its
\* operation has returned, whether or not its caller has already returned the
\* timeout error: a call whose operation has returned can always take the
\* lock when it is free and, holding it, do the bookkeeping; the bookkeeping
\* step records the one result of the operation (a failure adds one to the
\* count and stamps the time, a success clears the count); a call that has
\* returned takes no further step; and nothing but the bookkeeping step of a
\* call whose operation has returned changes the failure count, the time of
\* the last failure or the state.
C26_BookkeepingOncePerReturnedCall ==
    /\ [](\A p \in Workers :
            ~crashed =>
                /\ (req[p].pc = "ret" /\ mu = NoOne) => ENABLED PostLock(p)
                /\ req[p].pc = "post" => ENABLED PostResult(p))
    /\ [][\A p \in Workers :
            PostStep(p) =>
                /\ req[p].admitted # "none"
                /\ req[p].fnErr # "none"
                /\ IF req[p].fnErr # "nil"
                   THEN failures' = failures + 1 /\ lastFailTime' = now
                   ELSE failures' = 0 /\ lastFailTime' = lastFailTime]_vars
    /\ [][\A p \in Workers :
            (req[p].pc = "idle" /\ req[p].retErr # "none")
                => req'[p] = req[p]]_vars
    /\ [][BookkeepingChange => \E p \in Workers : PostStep(p)]_vars

\* C26 witness: the request has returned the timeout error after one second,
\* its retry loop went on through both backoffs, and its failure was recorded
\* when the loop returned, after the caller had gone.
C26_Witness ==
    \E p \in Workers :
        /\ caller[p].retErr = "timeout"
        /\ config.MaxRetries = 2
        /\ config.RequestTimeout = 1
        /\ req[p].pc = "idle"
        /\ req[p].retErr = "exhausted"
        /\ failures = 1
        /\ lastFailTime >= 3

\* The call of p was admitted before the last reset(): it entered while the
\* breaker was open or half-open, so a failure had been recorded by then,
\* and lastFailTime has since been cleared, which only reset() does.
AdmittedBeforeReset(p) ==
    /\ req[p].admitted \in {"open", "half-open"}
    /\ lastFailTime = ZeroTime

\* C27: a call admitted before reset() does not change failures,
\* lastFailTime or state when it does its bookkeeping after that reset.
C27_ResetDropsEarlierCalls ==
    [][\A p \in Workers :
          (PostStep(p) /\ AdmittedBeforeReset(p))
              => /\ failures' = failures
                 /\ lastFailTime' = lastFailTime
                 /\ state' = state]_vars

\* C28: the bookkeeping of a request that failed for want of credentials
\* records one failure as it does for an exhausted retry loop (the count goes
\* up by one, the time is stamped, and the breaker opens when the count
\* reaches maxFailures), and once maxFailures requests in a row have failed
\* since the breaker was built, for this or the other reason, it is open.
C28_NoCredentialsCountsAsFailure ==
    /\ [][\A p \in Workers :
            (PostStep(p) /\ (FailedWithoutCredentials(p) \/ AllAttemptsFailed(p)))
                => /\ failures' = failures + 1
                   /\ lastFailTime' = now
                   /\ state' = IF failures + 1 >= maxFailures
                               THEN "open" ELSE state
                   /\ req'[p].retToken = "nil"
                   /\ req'[p].retErr = req[p].fnErr]_vars
    /\ [](run >= maxFailures => state = "open")

\* C28 witness: no credential is configured anywhere, maxFailures requests
\* were made and failed one after the other, and the breaker is open.
C28_Witness ==
    /\ config # NilConfig
    /\ config.CredentialsFilePath = ""
    /\ config.CredentialsJSON = ""
    /\ calls = maxFailures
    /\ run = maxFailures
    /\ failures = maxFailures
    /\ state = "open"
    /\ \E p \in Workers :
         /\ req[p].pc = "idle"
         /\ req[p].retErr = "no_credentials"
         /\ caller[p] = IdleCaller

\* Worker p is serving a health check that is at its probe.
ProbeOf(p) == caller[p].pc = "probe"

\* C30: the probe of a health check on a configured backend is a call of the
\* breaker as a token request is: it is rejected with the circuit-open error
\* by a pre-check that finds the breaker open within the reset timeout, and
\* no probe is at an exchange while the breaker is so; it makes its exchanges
\* in the retry loop, maxRetries+1 of them when all fail; its failure adds
\* one to the failure count and opens the breaker when the count reaches
\* maxFailures; and the response reports the probe's error and the breaker
\* as the probe left it.
C30_HealthProbeUsesBreaker ==
    /\ [](\A p \in Workers :
            ProbeOf(p) =>
                /\ (state = "open" /\ ~ResetTimeoutElapsed)
                       => req[p].pc \notin {"fn", "sleep"}
                /\ req[p].exchanges <= config.MaxRetries + 1
                /\ (req[p].pc \in {"ret", "post"} /\ req[p].fnErr = "exhausted")
                       => req[p].exchanges = config.MaxRetries + 1)
    /\ [][\A p \in Workers :
            ProbeOf(p) =>
                /\ (PreStep(p) /\ state = "open" /\ ~ResetTimeoutElapsed)
                       => /\ req'[p].pc = "idle"
                          /\ req'[p].retErr = "circuit_open"
                          /\ failures' = failures
                /\ (PostStep(p) /\ req[p].fnErr # "nil")
                       => /\ failures' = failures + 1
                          /\ lastFailTime' = now
                          /\ state' = IF failures + 1 >= maxFailures
                                      THEN "open" ELSE state
                /\ caller'[p].pc = "idle"
                       => /\ req[p].retErr # "none"
                          /\ caller'[p].healthy = (req[p].retErr = "nil")
                          /\ caller'[p].retErr = req[p].retErr
                          /\ caller'[p].stats.state = state
                          /\ caller'[p].stats.failures = failures]_vars

\* C30 witness: failed probes and requests have opened the breaker, and a
\* health check has since come back unhealthy with the circuit-open error of
\* its rejected probe and the open breaker in its statistics.
C30_Witness ==
    \E p \in Workers :
        /\ caller[p] = HealthResponse(FALSE, "circuit_open", getStats)
        /\ state = "open"
        /\ failures = maxFailures
        /\ calls = maxFailures + 1

\* The pre-check of the step finds the breaker open with at most
\* resetTimeout elapsed since the last failure.
OpenWithinResetTimeout ==
    /\ state = "open"
    /\ lastFailTime # ZeroTime
    /\ now - lastFailTime <= resetTimeout

\* C29: a pre-check rejects its call exactly when it finds the breaker open
\* with at most resetTimeout elapsed, and admits it otherwise; in half-open
\* it admits the call and leaves the state, however many operations are
\* running.
C29_HalfOpenAdmitsEveryCall ==
    [][\A p \in Procs :
          PreStep(p) =>
              /\ OpenWithinResetTimeout
                    => /\ req'[p].pc = "idle"
                       /\ req'[p].retErr = "circuit_open"
              /\ ~OpenWithinResetTimeout
                    => /\ req'[p].pc = "fn"
                       /\ req'[p].retErr = "none"
              /\ state = "half-open"
                    => /\ req'[p].pc = "fn"
                       /\ state' = "half-open"]_vars

\* C29 witness: the breaker is half-open and the operations of all callers
\* are running, one admitted by the move to half-open and the others while
\* it was half-open.
C29_Witness ==
    /\ state = "half-open"
    /\ \A p \in Procs : req[p].pc = "fn"
    /\ \E p \in Procs : req[p].admitted = "open"
    /\ \E p \in Procs : req[p].admitted = "half-open"

====
